---- MODULE Spec2Model ----
(***************************************************************************)
(* Model of the AttentionOS extensibility core:                            *)
(*   attention/core/event_bus.py      EventBus                             *)
(*   attention/core/plugin_manager.py PluginManager                        *)
(*   attention/core/plugin_interface.py  default activate() wiring         *)
(*                                                                         *)
(* Every public method is one atomic action (single caller thread).  The   *)
(* variable `last` is an observation of the most recent call: its          *)
(* arguments, the handlers and plugin methods it invoked, in order, and    *)
(* what it returned.  The field `seq` of a listener entry is a ghost       *)
(* registration number; no modelled code reads it.                         *)
(***************************************************************************)
EXTENDS Integers, Sequences, FiniteSets, TLC

VARIABLES
    handlers,      \* EventBus._handlers : event name -> list of entries
    event_history, \* EventBus._event_history
    plugins,       \* PluginManager._plugins : name -> entry
    configs,       \* PluginManager._configs (in memory)
    disk,          \* content of plugin_configs.json
    pending,       \* plugin units discover_plugins has still to load
    nsub,          \* ghost: number of on() calls so far
    nupd,          \* ghost: number of update_plugin_config() calls so far
    npub,          \* ghost: number of numbered publishes so far
    lock,          \* EventBus._lock : the thread holding it, or None
    threads,       \* per thread, the stack of its EventBus calls in progress
    last           \* ghost: observation of the last call

vars == <<handlers, event_history, plugins, configs, disk, pending, nsub, nupd,
          npub, lock, threads, last>>
\* what the calls modelled as one step leave alone
stepwise == <<npub, lock, threads>>

(***************************************************************************)
(* Bounds of the model                                                     *)
(***************************************************************************)
MaxSubs == 2        \* on() calls in one behaviour
MaxEmits == 2       \* emit() calls by outside code in one behaviour
MaxPluginSubs == 5  \* on() calls made by plugins in one behaviour
MaxNotes == 6       \* history length up to which the manager is called
MaxUpdates == 1     \* update_plugin_config() calls in one behaviour
MaxPublishes == 150 \* numbered publishes in one behaviour
MaxDepth == 2       \* bus calls nested in one thread (a handler calling the bus)
MaxRacers == 3      \* publishes by threads once the history is full

(***************************************************************************)
(* Program constants                                                       *)
(***************************************************************************)
HistoryLimit == 100
DefaultPriority == 100
AnalyzerPriority == 50

WILDCARD == "*"
CycleComplete == "monitor.cycle_complete"
NudgeTriggered == "nudge.triggered"
ReviewGenerated == "review.generated"
None == "None"

(***************************************************************************)
(* Input domains                                                           *)
(***************************************************************************)
UserEvents == {"e", WILDCARD}
\* callables of code outside the plugins, each with the source tag its
\* owner subscribes it under ("" is the default of on())
UserHandlers == {"h1", "h2"}
Sources == {"", "ui"}
SourceOf(handler) == IF handler = "h1" THEN "" ELSE "ui"
RaisingHandlers == {"h2"}            \* handlers whose body raises Exception
Priorities == {5, DefaultPriority}
\* payload dicts; a call without payload (data=None) is the call with the
\* empty dict, which emit() substitutes before anything else happens
Payloads == {[k |-> 1], [k |-> 2]}
OffSources == {None, "ui"}
Threads == {"t1", "t2"}
LifecycleEvents == {"plugin.loaded", "plugin.activated", "plugin.deactivated",
                    "plugin.error"}
AllEvents == UserEvents \cup {CycleComplete, NudgeTriggered, ReviewGenerated}
                 \cup LifecycleEvents

(***************************************************************************)
(* EventBus                                                                *)
(***************************************************************************)
\* f"{event}:{id(handler)}:{source}"
ListenerId(event, handler, source) == <<event, handler, source>>

RECURSIVE InsertByPriority(_, _)
InsertByPriority(s, x) ==
    IF s = <<>> THEN <<x>>
    ELSE IF Head(s).priority <= x.priority
         THEN <<Head(s)>> \o InsertByPriority(Tail(s), x)
         ELSE <<x>> \o s

\* list.sort / sorted with key=priority: a stable sort
RECURSIVE SortByPriority(_)
SortByPriority(s) ==
    IF s = <<>> THEN <<>>
    ELSE InsertByPriority(SortByPriority(SubSeq(s, 1, Len(s) - 1)), s[Len(s)])

\* EventBus.on: the table after the call
BusOn(h, event, handler, priority, once, source, seq) ==
    LET entry == [id |-> ListenerId(event, handler, source),
                  handler |-> handler,
                  priority |-> priority,
                  once |-> once,
                  source |-> source,
                  seq |-> seq]
    IN [h EXCEPT ![event] = SortByPriority(Append(h[event], entry))]

\* mutant of BusOff: the source filter is applied before the handler filter
BusOffSourceWins(h, event, handler, source) ==
    IF source # None
    THEN [h EXCEPT ![event] = SelectSeq(h[event], LAMBDA x : x.source # source)]
    ELSE IF handler # None
         THEN [h EXCEPT ![event] = SelectSeq(h[event], LAMBDA x : x.handler # handler)]
         ELSE [h EXCEPT ![event] = <<>>]

\* EventBus.off: the table after the call
BusOff(h, event, handler, source) ==
    IF handler # None
    THEN [h EXCEPT ![event] = SelectSeq(h[event], LAMBDA x : x.handler # handler)]
    ELSE IF source # None
         THEN [h EXCEPT ![event] = SelectSeq(h[event], LAMBDA x : x.source # source)]
         ELSE [h EXCEPT ![event] = <<>>]

\* mutant of BusOffAll: the wildcard table is left alone
BusOffAllSkipsWildcard(h, source) ==
    [ev \in DOMAIN h |->
        IF ev = WILDCARD THEN h[ev]
        ELSE SelectSeq(h[ev], LAMBDA x : x.source # source)]

\* EventBus.off_all: the table after the call
BusOffAll(h, source) ==
    [ev \in DOMAIN h |-> SelectSeq(h[ev], LAMBDA x : x.source # source)]

\* number of entries in a table
RECURSIVE CountEntries(_, _)
CountEntries(h, evs) ==
    IF evs = {} THEN 0
    ELSE LET ev == CHOOSE e \in evs : TRUE
         IN Len(h[ev]) + CountEntries(h, evs \ {ev})

\* total_removed of EventBus.off_all
TotalRemoved(h, source) ==
    CountEntries(h, DOMAIN h) - CountEntries(BusOffAll(h, source), DOMAIN h)

\* mutant of RecordHistory: the trim keeps the oldest records
RecordHistoryKeepsOldest(hist, event, data) ==
    LET appended == Append(hist, [event |-> event, data_keys |-> DOMAIN data])
    IN IF Len(appended) > HistoryLimit
       THEN SubSeq(appended, 1, HistoryLimit)
       ELSE appended

\* EventBus._record_history (the wall-clock timestamp string is left out)
RecordHistory(hist, event, data) ==
    LET appended == Append(hist, [event |-> event, data_keys |-> DOMAIN data])
    IN IF Len(appended) > HistoryLimit
       THEN SubSeq(appended, Len(appended) - HistoryLimit + 1, Len(appended))
       ELSE appended

\* EventBus.get_history: the slice self._event_history[-limit:]
GetHistory(hist, limit) ==
    LET n == Len(hist)
        from == IF limit = 0 THEN 0                  \* [-0:] is [0:]
                ELSE IF limit > 0
                     THEN (IF limit > n THEN 0 ELSE n - limit)
                     ELSE (IF -limit > n THEN n ELSE -limit)
    IN SubSeq(hist, from + 1, n)

\* what calling a handler does: "return" or "raise" (an Exception)
HandlerOutcome(handler) ==
    IF handler \in RaisingHandlers THEN "raise" ELSE "return"

\* mutant of Dispatch: no try/except around the handler call, the first
\* exception leaves the loop
RECURSIVE DispatchAbortsOnRaise(_, _, _)
DispatchAbortsOnRaise(all, event, data) ==
    IF all = <<>> THEN [calls |-> <<>>, once_ids |-> <<>>, raised |-> FALSE]
    ELSE LET entry == Head(all)
             call == [seq |-> entry.seq, id |-> entry.id,
                      handler |-> entry.handler, source |-> entry.source,
                      once |-> entry.once, priority |-> entry.priority,
                      event |-> event, data |-> data,
                      outcome |-> HandlerOutcome(entry.handler)]
             rest == DispatchAbortsOnRaise(Tail(all), event, data)
         IN IF call.outcome = "raise"
            THEN [calls |-> <<call>>, once_ids |-> <<>>, raised |-> TRUE]
            ELSE [calls |-> <<call>> \o rest.calls,
                  once_ids |-> (IF entry.once THEN <<entry.id>> ELSE <<>>)
                                   \o rest.once_ids,
                  raised |-> rest.raised]

\* the dispatch loop of EventBus.emit over the sorted snapshot `all`:
\* the calls made, the ids collected in once_ids, and whether an exception
\* left the loop
RECURSIVE Dispatch(_, _, _)
Dispatch(all, event, data) ==
    IF all = <<>> THEN [calls |-> <<>>, once_ids |-> <<>>, raised |-> FALSE]
    ELSE LET entry == Head(all)
             call == [seq |-> entry.seq, id |-> entry.id,
                      handler |-> entry.handler, source |-> entry.source,
                      once |-> entry.once, priority |-> entry.priority,
                      event |-> event, data |-> data,
                      outcome |-> HandlerOutcome(entry.handler)]
             rest == Dispatch(Tail(all), event, data)
         IN [calls |-> <<call>> \o rest.calls,
             once_ids |-> (IF entry.once THEN <<entry.id>> ELSE <<>>)
                              \o rest.once_ids,
             raised |-> rest.raised]

\* the snapshot taken under the lock: exact + wildcard, sorted by priority
Snapshot(h, event) == SortByPriority(h[event] \o h[WILDCARD])

\* EventBus.emit: new table, new history, the calls made
BusEmit(h, hist, event, data) ==
    LET d == Dispatch(Snapshot(h, event), event, data)
        ids == {d.once_ids[i] : i \in 1..Len(d.once_ids)}
        cleaned == [ev \in DOMAIN h |->
                      IF ev \in {event, WILDCARD}
                      THEN SelectSeq(h[ev], LAMBDA x : x.id \notin ids)
                      ELSE h[ev]]
    IN [handlers |-> IF d.once_ids # <<>> /\ ~d.raised THEN cleaned ELSE h,
        history |-> RecordHistory(hist, event, data),
        emit |-> [event |-> event, data |-> data, calls |-> d.calls,
                  raised |-> d.raised]]

(***************************************************************************)
(* Observation of the last call                                            *)
(***************************************************************************)
NoCall == [op |-> "init", name |-> None, event |-> None, handler |-> None,
           unit |-> None, arg |-> None,
           emits |-> <<>>, pcalls |-> <<>>, result |-> None, exc |-> FALSE,
           steps |-> <<>>]

(***************************************************************************)
(* Plugins                                                                 *)
(***************************************************************************)
\* A plugin unit is a directory with a plugin.py; `classes` are the
\* BasePlugin subclasses defined in that module, in the order of dir(module).
UnitA == [dir |-> "analyzer", classes |-> <<"Analyzer">>]
UnitB == [dir |-> "custom", classes |-> <<"Custom">>]
UnitDup == [dir |-> "dup", classes |-> <<"Dup">>]
UnitEmpty == [dir |-> "empty", classes |-> <<>>]
UnitTwin == [dir |-> "twin", classes |-> <<"Custom", "Dup">>]
UnitBroken == [dir |-> "broken", classes |-> <<"Broken">>]
UnitN == [dir |-> "nudge", classes |-> <<"Nudge">>]
UnitR == [dir |-> "reporter", classes |-> <<"Reporter">>]

\* what an instance of a plugin class reports: get_meta().name, the
\* framework class it derives from, get_default_config(); `raises` tells
\* that the constructor, get_meta() or get_default_config() of the class
\* raises, so that no instance of it is ever registered
ClassMeta(cls) ==
    CASE cls = "Analyzer" -> [name |-> "pa", kind |-> "analyzer",
                              defaults |-> [a |-> 1, b |-> 2],
                              raises |-> FALSE]
      [] cls = "Custom"   -> [name |-> "pb", kind |-> "custom",
                              defaults |-> <<>>, raises |-> FALSE]
      [] cls = "Nudge"    -> [name |-> "pn", kind |-> "nudge",
                              defaults |-> <<>>, raises |-> FALSE]
      [] cls = "Reporter" -> [name |-> "pr", kind |-> "reporter",
                              defaults |-> <<>>, raises |-> FALSE]
      [] cls = "Broken"   -> [name |-> None, kind |-> None,
                              defaults |-> <<>>, raises |-> TRUE]
      [] OTHER            -> [name |-> "pa", kind |-> "custom",
                              defaults |-> [z |-> 0], raises |-> FALSE]

\* the plugin directories discover_plugins finds, in sorted order
PluginDirs == <<UnitA, UnitB>>
\* a second layout: a unit whose class cannot be instantiated, a unit
\* reporting a name already taken, a unit without a plugin class, a unit
\* with two plugin classes
PluginDirsOdd == <<UnitA, UnitBroken, UnitDup, UnitEmpty, UnitTwin>>
PluginNames == {"pa", "pb"}
\* a third layout: one plugin of each specialization with a default activate()
PluginDirsKinds == <<UnitA, UnitN, UnitR>>
KindNames == {"pa", "pn", "pr"}

\* what a plugin's own activate() / deactivate() body can do
ActivateOutcomes == {"return", "raise_first", "raise_last"}
DeactivateOutcomes == {"return", "raise"}
ActivateError == "activate failed"      \* str(e)

\* mutant of ActivatePlan: the analyzer subscribes without a priority
ActivatePlanNoPriority(kind, name) ==
    CASE kind = "analyzer" ->
           <<[event |-> CycleComplete, handler |-> <<name, "analyze">>,
              priority |-> DefaultPriority, once |-> FALSE, source |-> name]>>
      [] kind = "nudge" ->
           <<[event |-> NudgeTriggered, handler |-> <<name, "handle_nudge">>,
              priority |-> DefaultPriority, once |-> FALSE, source |-> name]>>
      [] kind = "reporter" ->
           <<[event |-> ReviewGenerated, handler |-> <<name, "handle_review">>,
              priority |-> DefaultPriority, once |-> FALSE, source |-> name]>>
      [] OTHER ->
           <<[event |-> CycleComplete, handler |-> <<name, "on_cycle">>,
              priority |-> DefaultPriority, once |-> FALSE, source |-> name],
             [event |-> WILDCARD, handler |-> <<name, "on_any">>,
              priority |-> DefaultPriority, once |-> FALSE, source |-> name]>>

\* the on() calls of a plugin's activate(), in order.  "analyzer", "nudge"
\* and "reporter" are the activate() of AnalyzerPlugin, NudgePlugin and
\* ReporterPlugin; "custom" is a BasePlugin subclass that listens to the
\* cycle event and to every event.
ActivatePlan(kind, name) ==
    CASE kind = "analyzer" ->
           <<[event |-> CycleComplete, handler |-> <<name, "analyze">>,
              priority |-> AnalyzerPriority, once |-> FALSE, source |-> name]>>
      [] kind = "nudge" ->
           <<[event |-> NudgeTriggered, handler |-> <<name, "handle_nudge">>,
              priority |-> DefaultPriority, once |-> FALSE, source |-> name]>>
      [] kind = "reporter" ->
           <<[event |-> ReviewGenerated, handler |-> <<name, "handle_review">>,
              priority |-> DefaultPriority, once |-> FALSE, source |-> name]>>
      [] OTHER ->
           <<[event |-> CycleComplete, handler |-> <<name, "on_cycle">>,
              priority |-> DefaultPriority, once |-> FALSE, source |-> name],
             [event |-> WILDCARD, handler |-> <<name, "on_any">>,
              priority |-> DefaultPriority, once |-> FALSE, source |-> name]>>

\* outcomes the activate() / deactivate() of a plugin kind can have: the
\* activate() of the three specializations only subscribes, their
\* deactivate() is pass
ActivateOutcomesOf(kind) ==
    IF kind = "custom" THEN ActivateOutcomes ELSE {"return"}
DeactivateOutcomesOf(kind) ==
    IF kind = "custom" THEN DeactivateOutcomes ELSE {"return"}

\* persisted documents plugin_configs.json may hold at start-up
EmptyDoc == <<>>
InitialDocs ==
    {EmptyDoc,
     [n \in {"pb"} |-> [enabled |-> TRUE]],
     [n \in {"pa"} |-> [config |-> [a |-> 9]]],
     [n \in {"pa", "pb"} |->
        IF n = "pa" THEN [enabled |-> FALSE, config |-> [a |-> 9]]
                    ELSE [enabled |-> TRUE, config |-> [c |-> 4]]]}
\* the document beside the second layout
OddDoc == [n \in {"pa"} |-> [enabled |-> TRUE]]
\* start-up situations: the units found and the document read
Startups ==
    {<<PluginDirs, doc>> : doc \in InitialDocs} \cup {<<PluginDirsOdd, OddDoc>>}
\* of writing plugin_configs.json: written, or open() raises IOError
IoOutcomes == {"ok", "ioerror"}
\* json.dump raises TypeError on a value it cannot encode (a set, a Path)
WriteOutcomes == IoOutcomes \cup {"typeerror"}
\* a config value json cannot encode, and an update that brings one
Unencodable == -1
BadPartial == [c |-> Unencodable]
SaveError == "not JSON serializable"     \* str(e) of the TypeError

\* arguments of update_plugin_config, outcomes of on_config_changed
Partials == {[a |-> 7], [c |-> 3]}
\* the update each plugin is sent: one overrides a key, one brings a key
PartialOf(name) == IF name = "pa" THEN [a |-> 7] ELSE [c |-> 3]
ConfigChangedOutcomes == {"return", "raise"}
ConfigChangedOutcomesOf(kind) ==
    IF kind = "analyzer" THEN {"return"} ELSE ConfigChangedOutcomes

\* mutant of Merge: the values of the first mapping win
MergeFirstWins(a, b) ==
    [k \in DOMAIN a \cup DOMAIN b |-> IF k \in DOMAIN a THEN a[k] ELSE b[k]]

\* {**a, **b}
Merge(a, b) ==
    [k \in DOMAIN a \cup DOMAIN b |-> IF k \in DOMAIN b THEN b[k] ELSE a[k]]

(***************************************************************************)
(* State after construction                                                *)
(***************************************************************************)
Init ==
    /\ handlers = [ev \in AllEvents |-> <<>>]
    /\ event_history = <<>>
    /\ plugins = <<>>
    /\ \E st \in Startups : pending = st[1] /\ disk = st[2]
    /\ configs = disk
    /\ nsub = 0
    /\ nupd = 0
    /\ npub = 0
    /\ lock = None
    /\ threads = [t \in Threads |-> <<>>]
    /\ last = NoCall

\* the start-up with the plain layout and no persisted document
InitPlain == Init /\ pending = PluginDirs /\ disk = EmptyDoc

\* the start-up with one plugin of each specialization
InitKinds ==
    /\ handlers = [ev \in AllEvents |-> <<>>]
    /\ event_history = <<>>
    /\ plugins = <<>>
    /\ pending = PluginDirsKinds
    /\ disk \in {EmptyDoc, [n \in {"pn"} |-> [enabled |-> TRUE]]}
    /\ configs = disk
    /\ nsub = 0
    /\ nupd = 0
    /\ npub = 0
    /\ lock = None
    /\ threads = [t \in Threads |-> <<>>]
    /\ last = NoCall

(***************************************************************************)
(* EventBus calls made by code outside the plugin manager                  *)
(***************************************************************************)
On(event, handler, priority, once, source) ==
    /\ nsub < MaxSubs
    /\ handlers' = BusOn(handlers, event, handler, priority, once, source,
                         nsub + 1)
    /\ nsub' = nsub + 1
    /\ last' = [NoCall EXCEPT !.op = "on", !.name = source, !.event = event,
                              !.handler = handler,
                              !.result = ListenerId(event, handler, source)]
    /\ UNCHANGED <<event_history, plugins, configs, disk, pending, nupd, stepwise>>

Off(event, handler, source) ==
    /\ handlers' = BusOff(handlers, event, handler, source)
    \* the arguments are observed when the call removed something (it is
    \* then that off() logs the call)
    /\ last' = IF handlers' = handlers
               THEN [NoCall EXCEPT !.op = "off"]
               ELSE [NoCall EXCEPT !.op = "off", !.event = event,
                                   !.handler = handler, !.name = source,
                                   !.result = Len(handlers[event])
                                                - Len(handlers'[event])]
    /\ UNCHANGED <<event_history, plugins, configs, disk, pending, nsub, nupd, stepwise>>

OffAll(source) ==
    /\ handlers' = BusOffAll(handlers, source)
    /\ last' = [NoCall EXCEPT !.op = "off_all", !.name = source,
                              !.result = TotalRemoved(handlers, source)]
    /\ UNCHANGED <<event_history, plugins, configs, disk, pending, nsub, nupd, stepwise>>

Emit(event, data) ==
    /\ Len(event_history) < MaxEmits
    /\ LET r == BusEmit(handlers, event_history, event, data)
       IN /\ handlers' = r.handlers
          /\ event_history' = r.history
          /\ last' = [NoCall EXCEPT !.op = "emit", !.event = event,
                                    !.emits = <<r.emit>>,
                                    !.result = IF r.emit.raised
                                               THEN "raised" ELSE None]
    /\ UNCHANGED <<plugins, configs, disk, pending, nsub, nupd, stepwise>>

(***************************************************************************)
(* PluginManager.  The operators below take and return the record `m` of   *)
(* everything a manager call can change, plus the logs of the call.        *)
(***************************************************************************)
Cur == [handlers |-> handlers, history |-> event_history,
        plugins |-> plugins, configs |-> configs, disk |-> disk,
        nsub |-> nsub, emits |-> <<>>, pcalls |-> <<>>, result |-> None,
        raised |-> FALSE, steps |-> <<>>]

\* self._event_bus.emit(event, data)
PmEmit(m, event, data) ==
    LET r == BusEmit(m.handlers, m.history, event, data)
    IN [m EXCEPT !.handlers = r.handlers, !.history = r.history,
                 !.emits = Append(@, r.emit)]

\* json.dump can encode every config value of the document
Encodable(doc) ==
    \A n \in DOMAIN doc :
       "config" \in DOMAIN doc[n] =>
          \A k \in DOMAIN doc[n].config : doc[n].config[k] # Unencodable

\* a document with one record, holding cfg as the config of name
AsDoc(name, cfg) == [n \in {name} |-> [config |-> cfg]]

\* the outcomes the write of a document can have
CanWrite(io, doc) ==
    /\ io = "ok" => Encodable(doc)
    /\ io = "typeerror" => ~Encodable(doc)

\* PluginManager._save_configs: an IOError (open, write) is logged and
\* swallowed; any other exception leaves the method, and the file, opened
\* with "w" and written in part, no longer parses (it loads as {})
SaveConfigs(m, io) ==
    IF io = "ok" THEN [m EXCEPT !.disk = m.configs]
    ELSE IF io = "typeerror" THEN [m EXCEPT !.disk = EmptyDoc, !.raised = TRUE]
    ELSE m

\* dict.get(name, {}).get(key, default) on a config document
DocGet(doc, name, key, default) ==
    IF name \in DOMAIN doc /\ key \in DOMAIN doc[name]
    THEN doc[name][key] ELSE default

\* PluginManager._update_config(name, key=value)
UpdateConfig(m, name, key, value, io) ==
    LET old == IF name \in DOMAIN m.configs THEN m.configs[name] ELSE <<>>
        new == [k \in DOMAIN old \cup {key} |->
                  IF k = key THEN value ELSE old[k]]
        doc == [n \in DOMAIN m.configs \cup {name} |->
                  IF n = name THEN new ELSE m.configs[n]]
    IN SaveConfigs([m EXCEPT !.configs = doc], io)

\* the on() calls of a plugin's activate(), applied in order.  The handler
\* is a bound method (self.analyze): a new callable object at every call,
\* so its identity is that of this subscription.
RECURSIVE SubscribeAll(_, _)
SubscribeAll(m, subs) ==
    IF subs = <<>> THEN m
    ELSE LET s == Head(subs)
         IN SubscribeAll(
              [m EXCEPT !.handlers = BusOn(m.handlers, s.event,
                                           Append(s.handler, m.nsub + 1),
                                           s.priority, s.once, s.source,
                                           m.nsub + 1),
                        !.nsub = m.nsub + 1],
              Tail(subs))

\* what a statement of the manager finds when it starts: the plugin calls
\* made, the listeners tagged with the name, the active flag, whether the
\* config document has enabled = false for the name, the events published,
\* how often the bus was assigned to the instance, and the instance's config
Step(m, name, s) ==
    [m EXCEPT !.steps = Append(@,
        [step |-> s, ran |-> Len(m.pcalls),
         tagged |-> TotalRemoved(m.handlers, name),
         active |-> m.plugins[name].active,
         disabled |-> (DocGet(m.configs, name, "enabled", TRUE) = FALSE),
         published |-> Len(m.emits),
         bus_sets |-> m.plugins[name].bus_sets,
         config |-> m.plugins[name].config])]

\* entry["instance"].activate()
RunActivate(m, name, outcome) ==
    LET plan == ActivatePlan(m.plugins[name].kind, name)
        done == IF outcome = "raise_first" THEN <<>> ELSE plan
        m0 == Step(m, name, "activate()")
    IN SubscribeAll(
         [m0 EXCEPT !.pcalls = Append(@, <<name, "activate", outcome>>)], done)

\* mutant of ActivatePlugin: the check for an active plugin is missing
ActivatePluginAgain(m, name, outcome, io) ==
    IF name \notin DOMAIN m.plugins THEN [m EXCEPT !.result = FALSE]
    ELSE LET m1 == RunActivate(m, name, outcome)
         IN IF outcome = "return"
            THEN LET m2 == [m1 EXCEPT !.plugins[name].active = TRUE,
                                      !.plugins[name].error = None]
                     m3 == UpdateConfig(m2, name, "enabled", TRUE, io)
                     m4 == PmEmit(m3, "plugin.activated", [name |-> name])
                 IN [m4 EXCEPT !.result = TRUE]
            ELSE LET m2 == [m1 EXCEPT !.plugins[name].error = ActivateError]
                     m3 == PmEmit(m2, "plugin.error",
                                  [name |-> name, error |-> ActivateError])
                 IN [m3 EXCEPT !.result = FALSE]

\* mutant of ActivatePlugin: the entry is marked active before the
\* plugin's activate() runs
ActivatePluginMarksFirst(m, name, outcome, io) ==
    IF name \notin DOMAIN m.plugins THEN [m EXCEPT !.result = FALSE]
    ELSE IF m.plugins[name].active THEN [m EXCEPT !.result = TRUE]
    ELSE LET m0 == [m EXCEPT !.plugins[name].active = TRUE]
             m1 == RunActivate(m0, name, outcome)
         IN IF outcome = "return"
            THEN LET m2 == [m1 EXCEPT !.plugins[name].error = None]
                     m3 == UpdateConfig(m2, name, "enabled", TRUE, io)
                     m4 == PmEmit(m3, "plugin.activated", [name |-> name])
                 IN [m4 EXCEPT !.result = TRUE]
            ELSE LET m2 == [m1 EXCEPT !.plugins[name].error = ActivateError]
                     m3 == PmEmit(m2, "plugin.error",
                                  [name |-> name, error |-> ActivateError])
                 IN [m3 EXCEPT !.result = FALSE]

\* PluginManager.activate_plugin
ActivatePlugin(m, name, outcome, io) ==
    IF name \notin DOMAIN m.plugins THEN [m EXCEPT !.result = FALSE]
    ELSE IF m.plugins[name].active THEN [m EXCEPT !.result = TRUE]
    ELSE LET m1 == RunActivate(m, name, outcome)
         IN IF outcome = "return"
            THEN LET m2 == [m1 EXCEPT !.plugins[name].active = TRUE,
                                      !.plugins[name].error = None]
                     m3 == UpdateConfig(m2, name, "enabled", TRUE, io)
                     m4 == PmEmit(m3, "plugin.activated", [name |-> name])
                     \* _update_config is inside the try: what it raises
                     \* is handled by the except branch
                     m5 == [m3 EXCEPT !.plugins[name].error = SaveError,
                                      !.raised = FALSE]
                     m6 == PmEmit(m5, "plugin.error",
                                  [name |-> name, error |-> SaveError])
                 IN IF m3.raised THEN [m6 EXCEPT !.result = FALSE]
                    ELSE [m4 EXCEPT !.result = TRUE]
            ELSE LET m2 == [m1 EXCEPT !.plugins[name].error = ActivateError]
                     m3 == PmEmit(m2, "plugin.error",
                                  [name |-> name, error |-> ActivateError])
                 IN [m3 EXCEPT !.result = FALSE]

\* mutant of DeactivatePlugin: the listeners are removed only when the
\* plugin's deactivate() returned
DeactivatePluginCleansOnReturn(m, name, outcome, io) ==
    IF name \notin DOMAIN m.plugins THEN [m EXCEPT !.result = FALSE]
    ELSE IF ~m.plugins[name].active THEN [m EXCEPT !.result = TRUE]
    ELSE LET m0 == Step(m, name, "deactivate")
             m1 == Step([m0 EXCEPT !.pcalls =
                           Append(@, <<name, "deactivate", outcome>>)],
                        name, "off_all")
             m2 == Step(IF outcome = "return"
                        THEN [m1 EXCEPT !.handlers =
                                BusOffAll(m1.handlers, name)]
                        ELSE m1, name, "mark")
             m3 == Step([m2 EXCEPT !.plugins[name].active = FALSE,
                                   !.plugins[name].error = None],
                        name, "persist")
             m4 == Step(UpdateConfig(m3, name, "enabled", FALSE, io),
                        name, "publish")
             m5 == Step(PmEmit(m4, "plugin.deactivated", [name |-> name]),
                        name, "return")
         IN IF m4.raised THEN [m4 EXCEPT !.result = FALSE]
            ELSE [m5 EXCEPT !.result = TRUE]

\* PluginManager.deactivate_plugin
DeactivatePlugin(m, name, outcome, io) ==
    IF name \notin DOMAIN m.plugins THEN [m EXCEPT !.result = FALSE]
    ELSE IF ~m.plugins[name].active THEN [m EXCEPT !.result = TRUE]
    ELSE LET m0 == Step(m, name, "deactivate")
             \* entry["instance"].deactivate(); an exception is logged only
             m1 == Step([m0 EXCEPT !.pcalls =
                           Append(@, <<name, "deactivate", outcome>>)],
                        name, "off_all")
             m2 == Step([m1 EXCEPT !.handlers = BusOffAll(m1.handlers, name)],
                        name, "mark")
             m3 == Step([m2 EXCEPT !.plugins[name].active = FALSE,
                                   !.plugins[name].error = None],
                        name, "persist")
             m4 == Step(UpdateConfig(m3, name, "enabled", FALSE, io),
                        name, "publish")
             m5 == Step(PmEmit(m4, "plugin.deactivated", [name |-> name]),
                        name, "return")
         IN \* the exception leaves the call, which returns nothing
            IF m4.raised THEN [m4 EXCEPT !.result = FALSE]
            ELSE [m5 EXCEPT !.result = TRUE]

\* the scan of _load_plugin for the plugin class of a unit
FindPluginClass(unit) ==
    IF unit.classes = <<>> THEN None ELSE Head(unit.classes)

\* mutant of LoadPlugin: a plugin without an enabled flag counts as enabled
LoadPluginEager(m, unit, outcome, io) ==
    IF FindPluginClass(unit) = None THEN [m EXCEPT !.raised = TRUE]
    ELSE IF ClassMeta(FindPluginClass(unit)).raises
    THEN [m EXCEPT !.raised = TRUE]
    ELSE IF ClassMeta(FindPluginClass(unit)).name \in DOMAIN m.plugins
    THEN m
    ELSE LET meta == ClassMeta(FindPluginClass(unit))
             name == meta.name
             merged == Merge(meta.defaults,
                             DocGet(m.configs, name, "config", <<>>))
             entry == [instance |-> unit.dir, kind |-> meta.kind,
                       active |-> FALSE, error |-> None, dir |-> unit.dir,
                       bus_sets |-> 1, config |-> merged]
             m1 == [m EXCEPT !.plugins =
                       [n \in DOMAIN m.plugins \cup {name} |->
                          IF n = name THEN entry ELSE m.plugins[n]]]
             m2 == IF DocGet(m1.configs, name, "enabled", TRUE)
                   THEN ActivatePlugin(m1, name, outcome, io)
                   ELSE m1
         IN [PmEmit(m2, "plugin.loaded", [name |-> name, meta |-> meta.kind])
               EXCEPT !.result = None]

\* mutant of LoadPlugin: a unit reporting a registered name replaces the entry
LoadPluginReplaces(m, unit, outcome, io) ==
    IF FindPluginClass(unit) = None THEN [m EXCEPT !.raised = TRUE]
    ELSE IF ClassMeta(FindPluginClass(unit)).raises
    THEN [m EXCEPT !.raised = TRUE]
    ELSE LET meta == ClassMeta(FindPluginClass(unit))
             name == meta.name
             merged == Merge(meta.defaults,
                             DocGet(m.configs, name, "config", <<>>))
             entry == [instance |-> unit.dir, kind |-> meta.kind,
                       active |-> FALSE, error |-> None, dir |-> unit.dir,
                       bus_sets |-> 1, config |-> merged]
             m1 == [m EXCEPT !.plugins =
                       [n \in DOMAIN m.plugins \cup {name} |->
                          IF n = name THEN entry ELSE m.plugins[n]]]
             m2 == IF DocGet(m1.configs, name, "enabled", FALSE)
                   THEN ActivatePlugin(m1, name, outcome, io)
                   ELSE m1
         IN [PmEmit(m2, "plugin.loaded", [name |-> name, meta |-> meta.kind])
               EXCEPT !.result = None]

\* mutant of LoadPlugin: the bus and the config are injected after the
\* activation of an enabled plugin
LoadPluginInjectsLate(m, unit, outcome, io) ==
    IF FindPluginClass(unit) = None
    THEN [m EXCEPT !.raised = TRUE]
    ELSE IF ClassMeta(FindPluginClass(unit)).raises
    THEN [m EXCEPT !.raised = TRUE]
    ELSE IF ClassMeta(FindPluginClass(unit)).name \in DOMAIN m.plugins
    THEN m
    ELSE LET meta == ClassMeta(FindPluginClass(unit))
             name == meta.name
             merged == Merge(meta.defaults,
                             DocGet(m.configs, name, "config", <<>>))
             entry == [instance |-> unit.dir, kind |-> meta.kind,
                       active |-> FALSE, error |-> None, dir |-> unit.dir,
                       bus_sets |-> 0, config |-> <<>>]
             m1 == [m EXCEPT !.plugins =
                       [n \in DOMAIN m.plugins \cup {name} |->
                          IF n = name THEN entry ELSE m.plugins[n]]]
             m2 == IF DocGet(m1.configs, name, "enabled", FALSE)
                   THEN ActivatePlugin(m1, name, outcome, io)
                   ELSE m1
             m3 == [m2 EXCEPT !.plugins[name].bus_sets = 1,
                              !.plugins[name].config = merged]
         IN [PmEmit(m3, "plugin.loaded", [name |-> name, meta |-> meta.kind])
               EXCEPT !.result = None]

\* PluginManager._load_plugin inside the try of discover_plugins
LoadPlugin(m, unit, outcome, io) ==
    IF FindPluginClass(unit) = None
    THEN [m EXCEPT !.raised = TRUE]                  \* ImportError
    ELSE IF ClassMeta(FindPluginClass(unit)).raises
    THEN [m EXCEPT !.raised = TRUE]                  \* lines 112-125 raise
    ELSE IF ClassMeta(FindPluginClass(unit)).name \in DOMAIN m.plugins
    THEN m                                           \* name collision
    ELSE LET meta == ClassMeta(FindPluginClass(unit))
             name == meta.name
             merged == Merge(meta.defaults,
                             DocGet(m.configs, name, "config", <<>>))
             entry == [instance |-> unit.dir, kind |-> meta.kind,
                       active |-> FALSE, error |-> None, dir |-> unit.dir,
                       bus_sets |-> 1, config |-> merged]
             m1 == [m EXCEPT !.plugins =
                       [n \in DOMAIN m.plugins \cup {name} |->
                          IF n = name THEN entry ELSE m.plugins[n]]]
             m2 == IF DocGet(m1.configs, name, "enabled", FALSE)
                   THEN ActivatePlugin(m1, name, outcome, io)
                   ELSE m1
         IN [PmEmit(m2, "plugin.loaded", [name |-> name, meta |-> meta.kind])
               EXCEPT !.result = None]

\* mutant of UpdatePluginConfig: an exception of on_config_changed ends the
\* call before the config is persisted
UpdatePluginConfigStopsOnRaise(m, name, new_config, outcome, io) ==
    IF name \notin DOMAIN m.plugins THEN [m EXCEPT !.result = FALSE]
    ELSE LET merged == Merge(m.plugins[name].config, new_config)
             m1 == [m EXCEPT !.plugins[name].config = merged]
             m2 == [m1 EXCEPT !.pcalls =
                      Append(@, <<name, "on_config_changed", outcome, merged>>)]
             m3 == IF outcome = "raise" THEN m2
                   ELSE UpdateConfig(m2, name, "config", merged, io)
         IN [m3 EXCEPT !.result = TRUE]

\* PluginManager.update_plugin_config
UpdatePluginConfig(m, name, new_config, outcome, io) ==
    IF name \notin DOMAIN m.plugins THEN [m EXCEPT !.result = FALSE]
    ELSE LET merged == Merge(m.plugins[name].config, new_config)
             m1 == [m EXCEPT !.plugins[name].config = merged]
             \* instance.on_config_changed(merged); an exception is logged
             m2 == [m1 EXCEPT !.pcalls =
                      Append(@, <<name, "on_config_changed", outcome, merged>>)]
             m3 == UpdateConfig(m2, name, "config", merged, io)
         IN \* the exception leaves the call, which returns nothing
            IF m3.raised THEN [m3 EXCEPT !.result = FALSE]
            ELSE [m3 EXCEPT !.result = TRUE]

Commit(m, obs) ==
    /\ handlers' = m.handlers
    /\ event_history' = m.history
    /\ plugins' = m.plugins
    /\ configs' = m.configs
    /\ disk' = m.disk
    /\ nsub' = m.nsub
    /\ last' = [obs EXCEPT !.emits = m.emits, !.pcalls = m.pcalls,
                           !.result = m.result, !.exc = m.raised,
                           !.steps = m.steps]

\* the class a unit is loaded from, None -> no meta
UnitMeta(unit) ==
    IF FindPluginClass(unit) = None
    THEN [name |-> None, kind |-> None, defaults |-> <<>>, raises |-> TRUE]
    ELSE ClassMeta(FindPluginClass(unit))

\* mutant of AfterLoad: an exception of _load_plugin ends the discovery
AfterLoadAborts(units, raised) ==
    IF raised THEN <<>> ELSE Tail(units)

\* the units discover_plugins still has to load after one: an exception of
\* _load_plugin is caught and logged inside the loop, which goes on
AfterLoad(units, raised) == Tail(units)

\* the kind of the plugin registered under a name
KindOf(name) ==
    CASE name = "pa" -> ClassMeta("Analyzer").kind
      [] name = "pn" -> ClassMeta("Nudge").kind
      [] name = "pr" -> ClassMeta("Reporter").kind
      [] OTHER -> ClassMeta("Custom").kind

\* one iteration of the loop of discover_plugins
Discover(outcome, io) ==
    /\ pending # <<>>
    /\ CanWrite(io, configs)
    /\ Len(event_history) < MaxNotes
    /\ IF UnitMeta(Head(pending)).raises
       THEN outcome = "return"
       ELSE /\ nsub + Len(ActivatePlan(UnitMeta(Head(pending)).kind,
                                       UnitMeta(Head(pending)).name))
                 <= MaxPluginSubs
            /\ outcome \in ActivateOutcomesOf(UnitMeta(Head(pending)).kind)
    /\ pending' = AfterLoad(pending,
                           LoadPlugin(Cur, Head(pending), outcome, io).raised)
    /\ UNCHANGED <<nupd, stepwise>>
    /\ Commit(LoadPlugin(Cur, Head(pending), outcome, io),
              [NoCall EXCEPT !.op = "load",
                             !.name = UnitMeta(Head(pending)).name,
                             !.unit = Head(pending).dir])

Activate(name, outcome, io) ==
    /\ Len(event_history) < MaxNotes
    /\ CanWrite(io, configs)
    /\ nsub + Len(ActivatePlan(KindOf(name), name)) <= MaxPluginSubs
    /\ outcome \in ActivateOutcomesOf(KindOf(name))
    /\ Commit(ActivatePlugin(Cur, name, outcome, io),
              [NoCall EXCEPT !.op = "activate", !.name = name])
    /\ UNCHANGED <<pending, nupd, stepwise>>

Deactivate(name, outcome, io) ==
    /\ Len(event_history) < MaxNotes
    /\ CanWrite(io, configs)
    /\ outcome \in DeactivateOutcomesOf(KindOf(name))
    /\ Commit(DeactivatePlugin(Cur, name, outcome, io),
              [NoCall EXCEPT !.op = "deactivate", !.name = name])
    /\ UNCHANGED <<pending, nupd, stepwise>>

UpdateConfigCall(name, new_config, outcome, io) ==
    /\ nupd < MaxUpdates
    /\ io = "ok" => Encodable(configs) /\ Encodable(AsDoc(name, new_config))
    /\ io = "typeerror" =>
          /\ name \in DOMAIN plugins
          /\ ~Encodable(configs) \/ ~Encodable(AsDoc(name, new_config))
    /\ new_config \in {PartialOf(name), BadPartial}
    /\ outcome \in ConfigChangedOutcomesOf(KindOf(name))
    /\ nupd' = nupd + 1
    /\ Commit(UpdatePluginConfig(Cur, name, new_config, outcome, io),
              [NoCall EXCEPT !.op = "update_config", !.name = name,
                             !.arg = new_config])
    /\ UNCHANGED <<pending, stepwise>>

\* the monitoring loop publishes a cycle
EmitCycle(data) ==
    /\ Len(event_history) < MaxNotes
    /\ Commit(PmEmit(Cur, CycleComplete, data),
              [NoCall EXCEPT !.op = "emit", !.event = CycleComplete])
    /\ UNCHANGED <<pending, nupd, stepwise>>

NextPM ==
    \/ \E outcome \in ActivateOutcomes, io \in IoOutcomes :
          Discover(outcome, io)
    \/ \E name \in PluginNames, outcome \in ActivateOutcomes,
          io \in IoOutcomes : Activate(name, outcome, io)
    \/ \E name \in PluginNames, outcome \in DeactivateOutcomes,
          io \in IoOutcomes : Deactivate(name, outcome, io)
    \/ \E data \in Payloads : EmitCycle(data)

SpecPM == Init /\ [][NextPM]_vars

\* the manager's configuration surface: discovery, enable/disable and
\* update_plugin_config
NextCfg ==
    \/ \E outcome \in ActivateOutcomes, io \in IoOutcomes :
          Discover(outcome, io)
    \/ \E name \in PluginNames, outcome \in ActivateOutcomes,
          io \in IoOutcomes : Activate(name, outcome, io)
    \/ \E name \in PluginNames, outcome \in DeactivateOutcomes,
          io \in IoOutcomes : Deactivate(name, outcome, io)
    \/ \E name \in PluginNames, new_config \in Partials,
          outcome \in ConfigChangedOutcomes, io \in IoOutcomes :
          UpdateConfigCall(name, new_config, outcome, io)

SpecCfg == Init /\ [][NextCfg]_vars

\* the same surface with every outcome of the write of the document, and
\* updates that bring a value json cannot encode
NextSave ==
    \/ \E outcome \in ActivateOutcomes, io \in WriteOutcomes :
          Discover(outcome, io)
    \/ \E name \in PluginNames, outcome \in ActivateOutcomes,
          io \in WriteOutcomes : Activate(name, outcome, io)
    \/ \E name \in PluginNames, outcome \in DeactivateOutcomes,
          io \in WriteOutcomes : Deactivate(name, outcome, io)
    \/ \E name \in PluginNames, new_config \in Partials \cup {BadPartial},
          outcome \in ConfigChangedOutcomes, io \in WriteOutcomes :
          UpdateConfigCall(name, new_config, outcome, io)

SpecSave == Init /\ [][NextSave]_vars

NextBus ==
    \/ \E event \in UserEvents, handler \in UserHandlers,
          priority \in Priorities, once \in BOOLEAN :
          On(event, handler, priority, once, SourceOf(handler))
    \/ \E event \in UserEvents, handler \in UserHandlers \cup {None},
          source \in OffSources :
          Off(event, handler, source)
    \/ \E source \in Sources : OffAll(source)
    \/ \E event \in UserEvents, data \in Payloads : Emit(event, data)

SpecBus == InitPlain /\ [][NextBus]_vars

(***************************************************************************)
(* EventBus calls step by step, by several threads.  A thread's stack      *)
(* holds a frame per bus call in progress: the call at the top runs, the   *)
(* frames below are emit() calls waiting inside a handler that made the    *)
(* call above.  EventBus._lock is a threading.Lock: not reentrant.         *)
(***************************************************************************)
\* the calls threads make
BusCalls ==
    {[kind |-> "on", event |-> "e", handler |-> h, source |-> SourceOf(h),
      once |-> (h = "h2")] : h \in UserHandlers}
    \cup {[kind |-> "off", event |-> "e", handler |-> None, source |-> None,
           once |-> FALSE]}
    \cup {[kind |-> "off_all", event |-> None, handler |-> None,
           source |-> "ui", once |-> FALSE]}
    \cup {[kind |-> "emit", event |-> "e", handler |-> None, source |-> None,
           once |-> FALSE]}

\* the frame of a call that has just been entered
NewFrame(c, seq) ==
    [kind |-> c.kind, event |-> c.event, handler |-> c.handler,
     source |-> c.source, once |-> c.once, seq |-> seq,
     pc |-> IF c.kind = "emit" THEN "snapshot" ELSE "enter",
     snap |-> <<>>, idx |-> 0, once_ids |-> <<>>,
     \* ghost: the entry whose handler is running, and whether it was in
     \* the registry when its handler was entered
     cur |-> None, present |-> TRUE,
     \* ghost: the once listeners of snap that the cleanup of another
     \* publish, which had called them too, has removed
     consumed |-> {},
     \* ghost: the once listeners of snap that a publish which has returned
     \* since had called
     fired |-> {}]

Top(t) == threads[t][Len(threads[t])]
SetTop(t, f) ==
    [threads EXCEPT ![t] = Append(SubSeq(@, 1, Len(@) - 1), f)]
Pop(t) == [threads EXCEPT ![t] = SubSeq(@, 1, Len(@) - 1)]

\* mutant of LockAfterSnapshot: the handlers are called inside the with block
LockKeptForDispatch(t) == t

\* the holder of the lock when `with self._lock:` of the snapshot is left
LockAfterSnapshot(t) == None

\* mutant of DispatchList: the loop runs over the registry, not over a copy
DispatchListLive(f, h) == Snapshot(h, f.event)

\* the list the loop of emit() runs over: all_handlers, built under the lock
DispatchList(f, h) == f.snap

\* t1 is the monitoring loop: it publishes, and the handlers it runs
\* subscribe h1, publish, or drop the listeners of a source; t2 is a
\* control thread: it subscribes h2 and unsubscribes
ThreadCalls(t) ==
    IF t = "t1"
    THEN {c \in BusCalls : c.kind \in {"emit", "off_all"} \/ c.handler = "h1"}
    ELSE {c \in BusCalls : c.kind \in {"off", "off_all"} \/ c.handler = "h2"}

\* a thread calls the bus, from outside or from inside a handler
Begin(t, c) ==
    /\ c \in ThreadCalls(t)
    /\ IF threads[t] = <<>> THEN TRUE
       ELSE Len(threads[t]) < MaxDepth /\ Top(t).pc = "handler"
    /\ c.kind = "on" => nsub < MaxSubs
    /\ c.kind = "emit" => Len(event_history) < MaxEmits
    /\ nsub' = IF c.kind = "on" THEN nsub + 1 ELSE nsub
    /\ event_history' = IF c.kind = "emit"
                        THEN RecordHistory(event_history, c.event, [k |-> 1])
                        ELSE event_history
    /\ threads' = [threads EXCEPT ![t] = Append(@, NewFrame(c, nsub + 1))]
    /\ UNCHANGED <<handlers, lock, last, plugins, configs, disk, pending,
                   nupd, npub>>

\* `with self._lock:` is entered
Acquire(t) ==
    /\ threads[t] # <<>>
    /\ Top(t).pc \in {"enter", "snapshot", "cleanup"}
    /\ lock = None
    /\ lock' = t
    /\ threads' = SetTop(t, [Top(t) EXCEPT !.pc =
                      CASE @ = "enter" -> "mutate"
                        [] @ = "snapshot" -> "snapshotting"
                        [] OTHER -> "cleaning"])
    /\ UNCHANGED <<handlers, event_history, nsub, last, plugins, configs,
                   disk, pending, nupd, npub>>

\* the body of on(), off() or off_all() under the lock, and the return
Mutate(t) ==
    /\ threads[t] # <<>>
    /\ Top(t).pc = "mutate"
    /\ LET f == Top(t)
       IN handlers' =
            CASE f.kind = "on" ->
                   BusOn(handlers, f.event, f.handler, DefaultPriority,
                         f.once, f.source, f.seq)
              [] f.kind = "off" ->
                   BusOff(handlers, f.event, f.handler, f.source)
              [] OTHER -> BusOffAll(handlers, f.source)
    /\ lock' = None
    /\ threads' = Pop(t)
    /\ UNCHANGED <<event_history, nsub, last, plugins, configs, disk,
                   pending, nupd, npub>>

\* emit(): the snapshot under the lock
TakeSnapshot(t) ==
    /\ threads[t] # <<>>
    /\ Top(t).pc = "snapshotting"
    /\ threads' = SetTop(t, [Top(t) EXCEPT
                                !.snap = Snapshot(handlers, Top(t).event),
                                !.idx = 1,
                                !.pc = "dispatch"])
    /\ lock' = LockAfterSnapshot(t)
    /\ UNCHANGED <<handlers, event_history, nsub, last, plugins, configs,
                   disk, pending, nupd, npub>>

\* whether an entry is in the table that emit(event) reads
Present(h, event, seq) ==
    \E i \in 1..Len(Snapshot(h, event)) : Snapshot(h, event)[i].seq = seq

\* emit(): entry["handler"](event, data) is entered, outside the lock
EnterHandler(t) ==
    /\ threads[t] # <<>>
    /\ Top(t).pc = "dispatch"
    /\ Top(t).idx <= Len(DispatchList(Top(t), handlers))
    /\ LET f == Top(t)
           entry == DispatchList(f, handlers)[f.idx]
       IN threads' = SetTop(t, [f EXCEPT
              !.pc = "handler",
              !.cur = entry,
              !.present = Present(handlers, f.event, entry.seq)])
    /\ UNCHANGED <<handlers, event_history, nsub, lock, last, plugins,
                   configs, disk, pending, nupd, npub>>

\* the handler returns or raises (the exception is logged): next entry
LeaveHandler(t) ==
    /\ threads[t] # <<>>
    /\ Top(t).pc = "handler"
    /\ LET f == Top(t)
       IN threads' = SetTop(t, [f EXCEPT
              !.pc = "dispatch",
              !.idx = @ + 1,
              !.once_ids = IF f.cur.once THEN Append(@, f.cur.id) ELSE @,
              !.cur = None,
              !.present = TRUE])
    /\ UNCHANGED <<handlers, event_history, nsub, lock, last, plugins,
                   configs, disk, pending, nupd, npub>>

\* emit(): the loop is over; the call returns when no once listener ran
EndDispatch(t) ==
    /\ threads[t] # <<>>
    /\ Top(t).pc = "dispatch"
    /\ Top(t).idx > Len(DispatchList(Top(t), handlers))
    /\ threads' = IF Top(t).once_ids = <<>>
                  THEN Pop(t)
                  ELSE SetTop(t, [Top(t) EXCEPT !.pc = "cleanup"])
    /\ UNCHANGED <<handlers, event_history, nsub, lock, last, plugins,
                   configs, disk, pending, nupd, npub>>

\* the registration numbers of the once listeners a publish has called
OnceCalled(f) ==
    LET n == IF f.pc = "handler" THEN f.idx ELSE f.idx - 1
    IN {f.snap[i].seq : i \in {j \in 1..n : f.snap[j].once}}

\* the registration numbers of the once listeners in a publish's snapshot
OnceInSnap(f) ==
    {f.snap[i].seq : i \in {j \in 1..Len(f.snap) : f.snap[j].once}}

\* the registration numbers of the entries the cleanup of frame f removes
Removed(f, h) ==
    LET ids == {f.once_ids[i] : i \in 1..Len(f.once_ids)}
    IN UNION {{h[ev][i].seq : i \in {j \in 1..Len(h[ev]) : h[ev][j].id \in ids}}
                 : ev \in {f.event, WILDCARD}}

\* ghost: the publishes in progress note which of the once listeners they
\* called have been removed by the cleanup of frame f, which called them too
NoteConsumed(ths, f, h) ==
    [u \in DOMAIN ths |->
        IF ths[u] = <<>> THEN <<>>
        ELSE [i \in 1..Len(ths[u]) |->
                [ths[u][i] EXCEPT
                    !.consumed =
                        @ \cup (Removed(f, h) \cap OnceCalled(f)
                                    \cap OnceCalled(ths[u][i])),
                    !.fired =
                        @ \cup (OnceCalled(f) \cap OnceInSnap(ths[u][i]))]]]

\* emit(): the once listeners are removed under the lock, and the return
Clean(t) ==
    /\ threads[t] # <<>>
    /\ Top(t).pc = "cleaning"
    /\ LET f == Top(t)
           ids == {f.once_ids[i] : i \in 1..Len(f.once_ids)}
       IN handlers' = [ev \in DOMAIN handlers |->
                         IF ev \in {f.event, WILDCARD}
                         THEN SelectSeq(handlers[ev],
                                        LAMBDA x : x.id \notin ids)
                         ELSE handlers[ev]]
    /\ lock' = None
    /\ threads' = NoteConsumed(Pop(t), Top(t), handlers)
    /\ UNCHANGED <<event_history, nsub, last, plugins, configs, disk,
                   pending, nupd, npub>>

NextConc ==
    \/ \E t \in Threads, c \in BusCalls : Begin(t, c)
    \/ \E t \in Threads : Acquire(t)
    \/ \E t \in Threads : Mutate(t)
    \/ \E t \in Threads : TakeSnapshot(t)
    \/ \E t \in Threads : EnterHandler(t)
    \/ \E t \in Threads : LeaveHandler(t)
    \/ \E t \in Threads : EndDispatch(t)
    \/ \E t \in Threads : Clean(t)

SpecConc == InitPlain /\ [][NextConc]_vars

\* overlapping publishes: both threads publish "e", also from inside a
\* handler, and t2 subscribes the once listener h2
OverlapCalls(t) ==
    {c \in BusCalls : c.kind = "emit" \/ (t = "t2" /\ c.handler = "h2")}

\* a thread publishes or subscribes, from outside or from inside a handler
BeginOverlap(t, c) ==
    /\ c \in OverlapCalls(t)
    /\ IF threads[t] = <<>> THEN TRUE
       ELSE Len(threads[t]) < MaxDepth /\ Top(t).pc = "handler"
    /\ c.kind = "on" => nsub < MaxSubs
    /\ c.kind = "emit" => Len(event_history) < MaxEmits
    /\ nsub' = IF c.kind = "on" THEN nsub + 1 ELSE nsub
    /\ event_history' = IF c.kind = "emit"
                        THEN RecordHistory(event_history, c.event, [k |-> 1])
                        ELSE event_history
    /\ threads' = [threads EXCEPT ![t] = Append(@, NewFrame(c, nsub + 1))]
    /\ UNCHANGED <<handlers, lock, last, plugins, configs, disk, pending,
                   nupd, npub>>

NextOverlap ==
    \/ \E t \in Threads, c \in BusCalls : BeginOverlap(t, c)
    \/ \E t \in Threads : Acquire(t)
    \/ \E t \in Threads : Mutate(t)
    \/ \E t \in Threads : TakeSnapshot(t)
    \/ \E t \in Threads : EnterHandler(t)
    \/ \E t \in Threads : LeaveHandler(t)
    \/ \E t \in Threads : EndDispatch(t)
    \/ \E t \in Threads : Clean(t)

SpecOverlap == InitPlain /\ [][NextOverlap]_vars

\* the manager beside other code that calls off() on the shared bus
NextMix ==
    \/ NextPM
    \/ \E event \in {CycleComplete, WILDCARD}, source \in OffSources :
          Off(event, None, source)

SpecMix == Init /\ [][NextMix]_vars

\* the three specializations beside listeners of other code on the cycle
\* event and on every event; the application runs the discovery to its end
\* before it enables or disables plugins and starts the monitoring loop
Enable(name, outcome) == pending = <<>> /\ Activate(name, outcome, "ok")
Disable(name, outcome) == pending = <<>> /\ Deactivate(name, outcome, "ok")
Cycle == pending = <<>> /\ EmitCycle([k |-> 1])

NextKinds ==
    \/ \E outcome \in ActivateOutcomes : Discover(outcome, "ok")
    \/ \E name \in KindNames, outcome \in ActivateOutcomes :
          Enable(name, outcome)
    \/ \E name \in KindNames, outcome \in DeactivateOutcomes :
          Disable(name, outcome)
    \/ \E event \in {CycleComplete, WILDCARD}, priority \in Priorities :
          On(event, "h1", priority, FALSE, SourceOf("h1"))
    \/ Cycle

SpecKinds == InitKinds /\ [][NextKinds]_vars

\* publishes told apart by their payload: the n-th carries the key n
PublishNumbered ==
    /\ npub < MaxPublishes
    /\ LET r == BusEmit(handlers, event_history, "e",
                        [k \in {npub + 1} |-> TRUE])
       IN /\ handlers' = r.handlers
          /\ event_history' = r.history
          /\ last' = [NoCall EXCEPT !.op = "emit", !.event = "e",
                                    !.arg = npub + 1]
    /\ npub' = npub + 1
    /\ UNCHANGED <<plugins, configs, disk, pending, nsub, nupd, lock, threads>>

\* arguments get_history is called with
Limits == {0, 1, 20, 1000}

GetHistoryCall(limit) ==
    /\ last' = [NoCall EXCEPT !.op = "get_history", !.arg = limit,
                              !.result = GetHistory(event_history, limit)]
    /\ UNCHANGED <<handlers, event_history, plugins, configs, disk, pending,
                   nsub, nupd, stepwise>>

NextHistory ==
    \/ PublishNumbered
    \/ \E limit \in Limits : GetHistoryCall(limit)

SpecHistory == InitPlain /\ [][NextHistory]_vars

(***************************************************************************)
(* _record_history statement by statement, by several threads.  emit calls *)
(* it before it takes the lock, so the threads interleave between any two  *)
(* of its attribute loads and stores.  No listener is registered here: the *)
(* rest of emit finds an empty snapshot and does nothing.  A frame holds   *)
(* `stale`: the list the thread loaded for its append is no longer the     *)
(* list self._event_history refers to; and `sliced`: the list its slice    *)
(* built.  Records are numbered in the order of their append.              *)
(***************************************************************************)
Idle == \A t \in Threads : threads[t] = <<>>

\* the publishes that have not appended their record yet
Starting == {t \in Threads : threads[t] # <<>> /\ threads[t][1].pc = "append"}

\* emit(event, data) up to the load of self._event_history for the append
StartRecord(t) ==
    /\ threads[t] = <<>>
    /\ npub + Cardinality(Starting) < HistoryLimit + MaxRacers
    /\ threads' = [threads EXCEPT ![t] =
                     <<[kind |-> "record", pc |-> "append", stale |-> FALSE,
                        sliced |-> <<>>]>>]
    /\ UNCHANGED <<handlers, event_history, plugins, configs, disk, pending,
                   nsub, nupd, npub, lock, last>>

\* list.append(record) on the list that was loaded
AppendRecord(t) ==
    /\ threads[t] # <<>>
    /\ Top(t).kind = "record" /\ Top(t).pc = "append"
    /\ event_history' =
          IF Top(t).stale THEN event_history
          ELSE Append(event_history,
                      [event |-> "e", data_keys |-> {npub + 1}])
    /\ npub' = npub + 1
    /\ threads' = SetTop(t, [Top(t) EXCEPT !.pc = "check"])
    /\ UNCHANGED <<handlers, plugins, configs, disk, pending, nsub, nupd,
                   lock, last>>

\* if len(self._event_history) > self._history_limit
CheckLength(t) ==
    /\ threads[t] # <<>>
    /\ Top(t).kind = "record" /\ Top(t).pc = "check"
    /\ threads' = IF Len(event_history) > HistoryLimit
                  THEN SetTop(t, [Top(t) EXCEPT !.pc = "slice"])
                  ELSE Pop(t)
    /\ UNCHANGED <<handlers, event_history, plugins, configs, disk, pending,
                   nsub, nupd, npub, lock, last>>

\* self._event_history[-self._history_limit:] builds a new list
SliceHistory(t) ==
    /\ threads[t] # <<>>
    /\ Top(t).kind = "record" /\ Top(t).pc = "slice"
    /\ threads' = SetTop(t, [Top(t) EXCEPT !.pc = "assign",
                                !.sliced = GetHistory(event_history,
                                                      HistoryLimit)])
    /\ UNCHANGED <<handlers, event_history, plugins, configs, disk, pending,
                   nsub, nupd, npub, lock, last>>

\* self._event_history = <the new list>: the threads that loaded the old
\* list for their append will append to a list nobody reads
AssignHistory(t) ==
    /\ threads[t] # <<>>
    /\ Top(t).kind = "record" /\ Top(t).pc = "assign"
    /\ event_history' = Top(t).sliced
    /\ threads' = [u \in Threads |->
                     IF u = t THEN <<>>
                     ELSE IF threads[u] # <<>> /\ threads[u][1].pc = "append"
                     THEN <<[threads[u][1] EXCEPT !.stale = TRUE]>>
                     ELSE threads[u]]
    /\ UNCHANGED <<handlers, plugins, configs, disk, pending, nsub, nupd,
                   npub, lock, last>>

\* a publish while no other is in progress, until the history is full
PublishAlone == Idle /\ npub < HistoryLimit /\ PublishNumbered

\* publishes of one thread at a time fill the history; then threads publish
\* at the same time
NextRace ==
    \/ PublishAlone
    \/ \E t \in Threads : StartRecord(t)
    \/ \E t \in Threads : AppendRecord(t)
    \/ \E t \in Threads : CheckLength(t)
    \/ \E t \in Threads : SliceHistory(t)
    \/ \E t \in Threads : AssignHistory(t)

SpecRace == InitPlain /\ [][NextRace]_vars

(***************************************************************************)
(* activate_plugin and deactivate_plugin step by step, called by several  *)
(* threads after discovery.  PluginManager has no lock: a thread can be    *)
(* preempted between any two statements of a call.  A thread's frame holds *)
(* the call in progress and the statement it is at.                        *)
(***************************************************************************)
\* the calls threads make
LifeCalls ==
    {[kind |-> k, name |-> n] : k \in {"activate", "deactivate"},
                                n \in PluginNames}

\* how the plugin's activate() ends in these calls: it returns, or it raises
\* before it has subscribed anything (a raise after a subscription leaves
\* listeners behind in a single call already, with no other thread at work)
LifeOutcomes == {"return", "raise_first"}

\* the threads with a call in progress
Busy == {t \in Threads : threads[t] # <<>>}

\* the frame of thread t at statement pc
At(t, pc) == [threads EXCEPT ![t] = <<[Top(t) EXCEPT !.pc = pc]>>]

\* what a step of a call leaves of the manager's state, observed as a step
LifeCommit(m) == Commit(m, [NoCall EXCEPT !.op = "step"])

\* a thread enters activate_plugin(name) or deactivate_plugin(name)
LifeBegin(t, c) ==
    /\ pending = <<>>
    /\ threads[t] = <<>>
    /\ c.name \in DOMAIN plugins
    /\ Len(event_history) + Cardinality(Busy) < MaxNotes
    /\ threads' = [threads EXCEPT ![t] =
                      <<[kind |-> c.kind, name |-> c.name, pc |-> "check"]>>]
    /\ UNCHANGED <<handlers, event_history, plugins, configs, disk, pending,
                   nsub, nupd, npub, lock, last>>

\* `if entry["active"]: return True` / `if not entry["active"]: return True`
LifeCheck(t) ==
    /\ threads[t] # <<>>
    /\ Top(t).pc = "check"
    /\ threads' = IF plugins[Top(t).name].active = (Top(t).kind = "activate")
                  THEN Pop(t)
                  ELSE At(t, "run")
    /\ UNCHANGED <<handlers, event_history, plugins, configs, disk, pending,
                   nsub, nupd, npub, lock, last>>

\* entry["instance"].activate() / entry["instance"].deactivate()
LifeRun(t, outcome) ==
    /\ threads[t] # <<>>
    /\ Top(t).pc = "run"
    /\ LET f == Top(t)
           kind == plugins[f.name].kind
       IN IF f.kind = "activate"
          THEN /\ outcome \in ActivateOutcomesOf(kind) \cap LifeOutcomes
               /\ nsub + Len(ActivatePlan(kind, f.name)) <= MaxPluginSubs
               /\ LifeCommit(RunActivate(Cur, f.name, outcome))
               /\ threads' = At(t, IF outcome = "return" THEN "mark"
                                                        ELSE "except")
          ELSE /\ outcome \in DeactivateOutcomesOf(kind)
               /\ LifeCommit([Cur EXCEPT !.pcalls =
                                Append(@, <<f.name, "deactivate", outcome>>)])
               /\ threads' = At(t, "off_all")
    /\ UNCHANGED <<pending, nupd, npub, lock>>

\* deactivate_plugin: self._event_bus.off_all(source=name)
LifeOffAll(t) ==
    /\ threads[t] # <<>>
    /\ Top(t).pc = "off_all"
    /\ LifeCommit([Cur EXCEPT !.handlers = BusOffAll(handlers, Top(t).name)])
    /\ threads' = At(t, "mark")
    /\ UNCHANGED <<pending, nupd, npub, lock>>

\* entry["active"] = True / False; entry["error"] = None
LifeMark(t) ==
    /\ threads[t] # <<>>
    /\ Top(t).pc = "mark"
    /\ LifeCommit([Cur EXCEPT
                     !.plugins[Top(t).name].active = (Top(t).kind = "activate"),
                     !.plugins[Top(t).name].error = None])
    /\ threads' = At(t, "persist")
    /\ UNCHANGED <<pending, nupd, npub, lock>>

\* self._update_config(name, enabled=...)
LifePersist(t) ==
    /\ threads[t] # <<>>
    /\ Top(t).pc = "persist"
    /\ LifeCommit(UpdateConfig(Cur, Top(t).name, "enabled",
                               Top(t).kind = "activate", "ok"))
    /\ threads' = At(t, "publish")
    /\ UNCHANGED <<pending, nupd, npub, lock>>

\* the notice of the call, and `return True`
LifePublish(t) ==
    /\ threads[t] # <<>>
    /\ Top(t).pc = "publish"
    /\ LifeCommit(PmEmit(Cur, IF Top(t).kind = "activate"
                              THEN "plugin.activated"
                              ELSE "plugin.deactivated",
                         [name |-> Top(t).name]))
    /\ threads' = Pop(t)
    /\ UNCHANGED <<pending, nupd, npub, lock>>

\* activate_plugin: the except branch, and `return False`
LifeExcept(t) ==
    /\ threads[t] # <<>>
    /\ Top(t).pc = "except"
    /\ LifeCommit(PmEmit([Cur EXCEPT
                            !.plugins[Top(t).name].error = ActivateError],
                         "plugin.error",
                         [name |-> Top(t).name, error |-> ActivateError]))
    /\ threads' = Pop(t)
    /\ UNCHANGED <<pending, nupd, npub, lock>>

NextLife ==
    \* discovery, before the threads start
    \/ \E outcome \in {"return"}, io \in {"ok"} : Discover(outcome, io)
    \/ \E t \in Threads, c \in LifeCalls : LifeBegin(t, c)
    \/ \E t \in Threads : LifeCheck(t)
    \/ \E t \in Threads, outcome \in ActivateOutcomes \cup DeactivateOutcomes :
          LifeRun(t, outcome)
    \/ \E t \in Threads : LifeOffAll(t)
    \/ \E t \in Threads : LifeMark(t)
    \/ \E t \in Threads : LifePersist(t)
    \/ \E t \in Threads : LifePublish(t)
    \/ \E t \in Threads : LifeExcept(t)

SpecLife == InitPlain /\ [][NextLife]_vars

\* the bus and the manager together
Next == NextBus \/ NextPM \/ NextCfg \/ NextSave \/ NextHistory \/ NextMix
          \/ NextConc \/ NextKinds \/ NextRace \/ NextOverlap
          \/ NextLife
Spec == Init /\ [][Next]_vars

(***************************************************************************)
(* Vocabulary of the properties                                            *)
(***************************************************************************)
\* the entries of a table, as a set (seq makes every entry distinct)
EntriesOf(h) == UNION {{h[ev][i] : i \in 1..Len(h[ev])} : ev \in DOMAIN h}
TaggedWith(h, source) == {x \in EntriesOf(h) : x.source = source}
\* the handler calls of the emit() that the last call was
CallsOf(obs) == obs.emits[1].calls
\* how often the listener registered as number n was called
TimesCalled(calls, n) == Cardinality({i \in 1..Len(calls) : calls[i].seq = n})
\* the plugin methods a call ran
Ran(obs, name, method) ==
    \E i \in 1..Len(obs.pcalls) :
        obs.pcalls[i][1] = name /\ obs.pcalls[i][2] = method
RanAndRaised(obs, name, method) ==
    \E i \in 1..Len(obs.pcalls) :
        /\ obs.pcalls[i][1] = name /\ obs.pcalls[i][2] = method
        /\ obs.pcalls[i][3] # "return"
EmitsOf(obs, event) == {i \in 1..Len(obs.emits) : obs.emits[i].event = event}

(***************************************************************************)
(* C1.  A registered plugin that is not active has no listener tagged with *)
(* its name in the bus, under any event name.                              *)
(***************************************************************************)
C1_InactiveHasNoListeners ==
    \A name \in DOMAIN plugins :
        ~plugins[name].active => TaggedWith(handlers, name) = {}

(***************************************************************************)
(* C2.  When deactivate(name) has returned for a registered plugin, the    *)
(* bus holds no listener tagged with that name.                            *)
(***************************************************************************)
C2_DeactivateRemovesAll ==
    (last.op = "deactivate" /\ last.name \in DOMAIN plugins)
        => TaggedWith(handlers, last.name) = {}

(***************************************************************************)
(* C3.  One publish of an ordinary event calls the exact and the wildcard  *)
(* listeners in order of priority, and listeners of equal priority in the  *)
(* order in which they were subscribed.                                    *)
(***************************************************************************)
C3_PriorityThenRegistrationOrder ==
    (last.op = "emit" /\ last.event # WILDCARD) =>
        \A i, j \in 1..Len(CallsOf(last)) :
            i < j =>
                \/ CallsOf(last)[i].priority < CallsOf(last)[j].priority
                \/ /\ CallsOf(last)[i].priority = CallsOf(last)[j].priority
                   /\ CallsOf(last)[i].seq < CallsOf(last)[j].seq

(***************************************************************************)
(* C4.  publish(E, data) calls every listener subscribed to E exactly      *)
(* once, with the arguments (E, data), for every event name E.             *)
(***************************************************************************)
C4_ExactlyOncePerPublish ==
    [][last'.op = "emit" =>
         \A k \in 1..Len(handlers[last'.event]) :
             /\ TimesCalled(CallsOf(last'), handlers[last'.event][k].seq) = 1
             /\ \A i \in 1..Len(CallsOf(last')) :
                    /\ CallsOf(last')[i].event = last'.emits[1].event
                    /\ CallsOf(last')[i].data = last'.emits[1].data]_vars

(***************************************************************************)
(* C5.  A raising handler stops nothing: every listener of the snapshot is *)
(* called, also those after the one that raised, and publish returns       *)
(* normally.                                                               *)
(***************************************************************************)
C5_FaultIsolation ==
    [][last'.op = "emit" =>
         /\ ~last'.emits[1].raised
         /\ last'.result = None
         /\ \A ev \in {last'.event, WILDCARD} :
                \A k \in 1..Len(handlers[ev]) :
                    TimesCalled(CallsOf(last'), handlers[ev][k].seq) >= 1]_vars

C5_Witness ==
    /\ last.op = "emit"
    /\ \E i, j \in 1..Len(CallsOf(last)) :
           /\ i < j
           /\ CallsOf(last)[i].outcome = "raise"
           /\ CallsOf(last)[j].outcome = "return"

(***************************************************************************)
(* C6.  A once listener is called by the first publish that matches it,    *)
(* once, and is out of the registry when that publish returns.             *)
(***************************************************************************)
C6_OnceFiresOnce ==
    last.op = "emit" =>
        \A i \in 1..Len(CallsOf(last)) :
            CallsOf(last)[i].once =>
                /\ TimesCalled(CallsOf(last), CallsOf(last)[i].seq) = 1
                /\ \A x \in EntriesOf(handlers) : x.seq # CallsOf(last)[i].seq

(***************************************************************************)
(* C7.  No two entries of the listener table have the same id.             *)
(***************************************************************************)
C7_UniqueIds ==
    \A x, y \in EntriesOf(handlers) : x.id = y.id => x = y

(***************************************************************************)
(* C8.  activate(name) on an active plugin returns success and does        *)
(* nothing: the plugin's activate() is not run, no listener is added, no   *)
(* state changes.                                                          *)
(***************************************************************************)
C8_ActivateIdempotent ==
    [][(/\ last'.op = "activate"
        /\ last'.name \in DOMAIN plugins
        /\ plugins[last'.name].active) =>
         /\ last'.result = TRUE
         /\ last'.pcalls = <<>>
         /\ last'.emits = <<>>
         /\ UNCHANGED <<handlers, event_history, plugins, configs, disk,
                        pending, nsub>>]_vars

C8_Witness ==
    /\ last.op = "activate"
    /\ last.name \in DOMAIN plugins
    /\ plugins[last.name].active
    /\ last.result = TRUE
    /\ last.pcalls = <<>>
    /\ Cardinality(TaggedWith(handlers, last.name)) = 2

(***************************************************************************)
(* C9.  When the plugin's activate() raises inside activate(name), the     *)
(* call returns failure with the plugin inactive, the message recorded,    *)
(* one plugin.error carrying the name published and the persisted record   *)
(* untouched; and the activate() of a plugin in error runs again only in   *)
(* another activate(name).                                                 *)
(***************************************************************************)
C9_ActivationError ==
    [][/\ (last'.op = "activate" /\ RanAndRaised(last', last'.name, "activate"))
            => /\ last'.result = FALSE
               /\ ~plugins'[last'.name].active
               /\ plugins'[last'.name].error = ActivateError
               /\ Cardinality(EmitsOf(last', "plugin.error")) = 1
               /\ \A i \in EmitsOf(last', "plugin.error") :
                      last'.emits[i].data.name = last'.name
               /\ Len(last'.pcalls) = 1
               /\ configs' = configs
               /\ disk' = disk
       /\ \A name \in DOMAIN plugins :
            (plugins[name].error # None /\ Ran(last', name, "activate"))
                => (last'.op = "activate" /\ last'.name = name)]_vars

C9_Witness ==
    /\ last.op = "activate"
    /\ RanAndRaised(last, last.name, "activate")
    /\ last.result = FALSE
    /\ plugins[last.name].error = ActivateError

(***************************************************************************)
(* C10.  off_all(source) removes the entries tagged with source and no     *)
(* other: none of them is left under any event name, the entries of other  *)
(* sources stay, in their order; and a publish only calls listeners that   *)
(* are in the table.                                                       *)
(***************************************************************************)
C10_OffAllExact ==
    [][/\ last'.op = "off_all" =>
            \A ev \in DOMAIN handlers :
                /\ \A i \in 1..Len(handlers'[ev]) :
                       handlers'[ev][i].source # last'.name
                /\ \A k \in 1..Len(handlers[ev]) :
                       handlers[ev][k].source # last'.name =>
                           \E i \in 1..Len(handlers'[ev]) :
                               handlers'[ev][i] = handlers[ev][k]
                /\ \A i, j \in 1..Len(handlers'[ev]) :
                       i < j =>
                           \E a, b \in 1..Len(handlers[ev]) :
                               /\ a < b
                               /\ handlers[ev][a] = handlers'[ev][i]
                               /\ handlers[ev][b] = handlers'[ev][j]
       /\ last'.op = "emit" =>
            \A i \in 1..Len(CallsOf(last')) :
                \E x \in EntriesOf(handlers) : x.seq = CallsOf(last')[i].seq]_vars

C10_Witness ==
    /\ last.op = "off_all"
    /\ last.name = "ui"
    /\ last.result = 1
    /\ TaggedWith(handlers, "ui") = {}
    /\ TaggedWith(handlers, "") # {}

\* the filter of off(): whether the call keeps entry x
OffKeeps(x, handler, source) ==
    IF handler # None THEN x.handler # handler
    ELSE IF source # None THEN x.source # source
    ELSE FALSE

(***************************************************************************)
(* C11.  off(event, handler, source) touches the entries of `event` only:  *)
(* with a handler it removes exactly the entries of that event whose       *)
(* handler is that handler, whatever source is passed with it; with a      *)
(* source and no handler, the entries of that event tagged with the        *)
(* source; with neither, all the entries of that event.  What stays keeps  *)
(* its order, and the tables of the other events are unchanged.            *)
(***************************************************************************)
C11_OffExact ==
    [][last'.op = "off" =>
         \A event \in UserEvents, handler \in UserHandlers \cup {None},
            source \in OffSources :
            handlers' = BusOff(handlers, event, handler, source) =>
                handlers' = [handlers EXCEPT ![event] =
                                SelectSeq(handlers[event],
                                          LAMBDA x : OffKeeps(x, handler,
                                                              source))]]_vars

\* off('e', h1, source='ui') removed the entry of h1, tagged '', and left the
\* entry tagged 'ui' in place
C11_Witness ==
    /\ last.op = "off"
    /\ last.handler = "h1"
    /\ last.name = "ui"
    /\ last.result = 1
    /\ \E i \in 1..Len(handlers[last.event]) :
           /\ handlers[last.event][i].source = "ui"
           /\ handlers[last.event][i].handler # "h1"

\* what a document says of a call that returned success
Reflects(doc, obs, entries) ==
    /\ obs.op = "activate" => DocGet(doc, obs.name, "enabled", FALSE) = TRUE
    /\ obs.op = "deactivate" =>
           DocGet(doc, obs.name, "enabled", FALSE) = FALSE
    /\ obs.op = "update_config" =>
           DocGet(doc, obs.name, "config", None) = entries[obs.name].config

\* the records of the names other than name are the same in both documents
OthersSame(before, after, name) ==
    /\ DOMAIN after \ {name} = DOMAIN before \ {name}
    /\ \A n \in DOMAIN after \ {name} : after[n] = before[n]

ConfigCalls == {"activate", "deactivate", "update_config"}

(***************************************************************************)
(* C12.  As claimed: when activate(name), deactivate(name) or              *)
(* update_plugin_config(name, partial) returns success, the persisted      *)
(* document has, for name, enabled = true, enabled = false (no enabled key *)
(* reads as false), the merged config of the instance; and its records of  *)
(* the other names are what they were.                                     *)
(***************************************************************************)
C12_PersistedReflectsCall ==
    [][last'.op \in ConfigCalls /\ last'.result = TRUE =>
          /\ Reflects(disk', last', plugins')
          /\ OthersSame(disk, disk', last'.name)]_vars

(***************************************************************************)
(* C13.  Loading a unit registers its plugin class when the module         *)
(* defines exactly one (and the name is free); a unit whose module defines *)
(* none, or more than one, registers nothing and changes nothing.          *)
(***************************************************************************)
C13_OneClassOrNothing ==
    [][pending # <<>> /\ pending' = Tail(pending) =>
          LET unit == Head(pending)
          IN /\ Len(unit.classes) # 1 =>
                    /\ plugins' = plugins
                    /\ handlers' = handlers
                    /\ last'.emits = <<>>
             /\ (/\ Len(unit.classes) = 1
                 /\ ~ClassMeta(unit.classes[1]).raises
                 /\ ClassMeta(unit.classes[1]).name \notin DOMAIN plugins) =>
                    /\ ClassMeta(unit.classes[1]).name \in DOMAIN plugins'
                    /\ plugins'[ClassMeta(unit.classes[1]).name].instance
                          = unit.dir]_vars

(***************************************************************************)
(* C14.  Names are unique in the registry.  Loading a unit that reports a  *)
(* name already registered leaves the entry of that name (instance, meta,  *)
(* config, active flag), the subscriptions and the config document as they *)
(* were, calls no method of the second instance and publishes nothing; and *)
(* no call ever changes the instance registered under a name.              *)
(***************************************************************************)
C14_FirstUnitKeepsName ==
    [][/\ (/\ pending # <<>>
           /\ pending' = Tail(pending)
           /\ UnitMeta(Head(pending)).name \in DOMAIN plugins) =>
              /\ plugins' = plugins
              /\ handlers' = handlers
              /\ configs' = configs
              /\ disk' = disk
              /\ last'.pcalls = <<>>
              /\ last'.emits = <<>>
       /\ \A n \in DOMAIN plugins :
              /\ n \in DOMAIN plugins'
              /\ plugins'[n].instance = plugins[n].instance
              /\ plugins'[n].kind = plugins[n].kind
              /\ plugins'[n].dir = plugins[n].dir]_vars

\* the unit 'dup' reporting the name 'pa' has been loaded while the plugin
\* of the unit 'analyzer' was registered as 'pa', active and subscribed
C14_Witness ==
    /\ last.op = "load"
    /\ last.unit = "dup"
    /\ last.name = "pa"
    /\ last.pcalls = <<>>
    /\ DOMAIN plugins = {"pa"}
    /\ plugins["pa"].instance = "analyzer"
    /\ plugins["pa"].active
    /\ TaggedWith(handlers, "pa") # {}

(***************************************************************************)
(* C15.  The history never holds more than 100 records and loses the       *)
(* oldest first: after N publishes it is the records of the last           *)
(* min(N, 100) publishes, in order; get_history(1000) returns just those   *)
(* (the publishes 51..150 after 150 publishes).                            *)
(***************************************************************************)
C15_HistoryBounded ==
    /\ Len(event_history) <= HistoryLimit
    /\ Len(event_history) = IF npub < HistoryLimit THEN npub ELSE HistoryLimit
    /\ \A i \in 1..Len(event_history) :
           event_history[i].data_keys = {npub - Len(event_history) + i}
    /\ (last.op = "get_history" /\ last.arg = 1000) =>
           last.result = event_history

C15_Witness ==
    /\ npub = 150
    /\ last.op = "get_history"
    /\ last.arg = 1000
    /\ Len(last.result) = 100
    /\ last.result[1].data_keys = {51}
    /\ last.result[100].data_keys = {150}

(***************************************************************************)
(* C16.  For every limit >= 0, get_history(limit) returns the most recent  *)
(* min(limit, stored) records, newest last; get_history(0) returns none.   *)
(***************************************************************************)
C16_MostRecentLimit ==
    (last.op = "get_history" /\ last.arg >= 0) =>
        LET n == Len(event_history)
            k == IF last.arg < n THEN last.arg ELSE n
        IN /\ Len(last.result) = k
           /\ \A i \in 1..k : last.result[i] = event_history[n - k + i]

(***************************************************************************)
(* C17.  While a plugin is active, every listener its activate() installed *)
(* is in the table of its event (none of them is a once listener): no call *)
(* on the bus or the manager other than the deactivation of that plugin    *)
(* removes one.                                                            *)
(***************************************************************************)
C17_ActiveKeepsListeners ==
    \A name \in DOMAIN plugins :
        plugins[name].active =>
            \A k \in 1..Len(ActivatePlan(plugins[name].kind, name)) :
                LET sub == ActivatePlan(plugins[name].kind, name)[k]
                IN \E i \in 1..Len(handlers[sub.event]) :
                      /\ handlers[sub.event][i].source = name
                      /\ SubSeq(handlers[sub.event][i].handler, 1, 2)
                            = sub.handler

(***************************************************************************)
(* C18.  emit() does not hold the bus lock while it dispatches: a thread   *)
(* whose running call is the loop of emit() or the body of a handler does  *)
(* not hold the lock, and the lock is held only in the critical sections   *)
(* (a registry mutation, the snapshot, the removal of once listeners),     *)
(* each left by the holder's next step.  So a handler that calls the bus   *)
(* finds the lock free of its own thread, and no thread waits for a        *)
(* running handler.                                                        *)
(***************************************************************************)
C18_NoHandlerUnderLock ==
    /\ \A t \in Threads :
           (threads[t] # <<>> /\ Top(t).pc \in {"dispatch", "handler"})
               => lock # t
    /\ lock # None =>
           /\ threads[lock] # <<>>
           /\ Top(lock).pc \in {"mutate", "snapshotting", "cleaning"}

\* a handler run by t1 has published again, the handler of that inner
\* publish is running, and t2 is inside a registry mutation meanwhile
C18_Witness ==
    /\ Len(threads["t1"]) = 2
    /\ threads["t1"][1].pc = "handler"
    /\ threads["t1"][2].kind = "emit"
    /\ threads["t1"][2].pc = "handler"
    /\ lock = "t2"
    /\ Top("t2").pc = "mutate"

(***************************************************************************)
(* C19.  emit() dispatches to the snapshot of the registry it took under   *)
(* the lock: the handlers it enters are the entries of that snapshot, one  *)
(* after the other, and the loop ends after the last of them, whatever is  *)
(* subscribed or unsubscribed (off, off_all) while it dispatches.          *)
(***************************************************************************)
C19_DispatchesSnapshot ==
    [][\A t \in Threads :
          /\ TakeSnapshot(t) =>
                 threads'[t][Len(threads'[t])].snap
                   = Snapshot(handlers, Top(t).event)
          /\ EnterHandler(t) =>
                 /\ Top(t).idx <= Len(Top(t).snap)
                 /\ threads'[t][Len(threads'[t])].cur
                      = Top(t).snap[Top(t).idx]
          /\ EndDispatch(t) => Top(t).idx = Len(Top(t).snap) + 1]_vars

\* the last entry of the snapshot is being called although it had left the
\* registry before its turn, and the registry holds an entry for the event
\* that was subscribed after the snapshot
C19_Witness ==
    /\ threads["t1"] # <<>>
    /\ Top("t1").pc = "handler"
    /\ Top("t1").idx = Len(Top("t1").snap)
    /\ ~Top("t1").present
    /\ \E i \in 1..Len(handlers[Top("t1").event]) :
           \A k \in 1..Len(Top("t1").snap) :
               handlers[Top("t1").event][i].seq # Top("t1").snap[k].seq

\* cfg is defaults overridden key by key by persisted
IsMerge(cfg, defaults, persisted) ==
    /\ DOMAIN cfg = DOMAIN defaults \cup DOMAIN persisted
    /\ \A k \in DOMAIN persisted : cfg[k] = persisted[k]
    /\ \A k \in DOMAIN defaults \ DOMAIN persisted : cfg[k] = defaults[k]

(***************************************************************************)
(* C20.  A unit that loads is registered with the config                   *)
(* merge(defaults, persisted config of its name); its activate() is called *)
(* in that load exactly when the persisted record of its name has          *)
(* enabled = true, and otherwise it is left inactive, uncalled and without *)
(* listeners.  A registered plugin becomes active, and its activate() is   *)
(* called, only in activate_plugin(name) or in that load.                  *)
(***************************************************************************)
C20_ActivatedAtLoadIffEnabled ==
    [][/\ (/\ pending # <<>>
           /\ pending' = Tail(pending)
           /\ UnitMeta(Head(pending)).name # None
           /\ UnitMeta(Head(pending)).name \notin DOMAIN plugins) =>
              LET meta == UnitMeta(Head(pending))
                  name == meta.name
                  enabled == DocGet(configs, name, "enabled", FALSE)
              IN /\ name \in DOMAIN plugins'
                 /\ IsMerge(plugins'[name].config, meta.defaults,
                            DocGet(configs, name, "config", <<>>))
                 /\ Ran(last', name, "activate") <=> enabled = TRUE
                 /\ plugins'[name].active =>
                        /\ enabled = TRUE
                        /\ \E i \in 1..Len(last'.pcalls) :
                               last'.pcalls[i] = <<name, "activate", "return">>
                 /\ enabled # TRUE =>
                        /\ ~plugins'[name].active
                        /\ last'.pcalls = <<>>
                        /\ TaggedWith(handlers', name) = {}
       /\ \A name \in DOMAIN plugins :
              (\/ Ran(last', name, "activate")
               \/ ~plugins[name].active /\ plugins'[name].active)
              => (last'.op = "activate" /\ last'.name = name)]_vars

\* pb, persisted as enabled, has been activated by its load, while pa,
\* persisted as disabled with config {a: 9}, was left registered and inactive
C20_Witness ==
    /\ last.op = "load"
    /\ last.name = "pb"
    /\ Ran(last, "pb", "activate")
    /\ plugins["pb"].active
    /\ ~plugins["pa"].active
    /\ plugins["pa"].config = [a |-> 9, b |-> 2]
    /\ TaggedWith(handlers, "pa") = {}
    /\ DocGet(configs, "pa", "enabled", None) = FALSE

(***************************************************************************)
(* C21.  The config a plugin gets at load is its defaults merged key by    *)
(* key with the persisted config of its name, the persisted values         *)
(* winning: a persisted key has the persisted value, a key of the defaults *)
(* alone has the default value, and there is no other key.                 *)
(***************************************************************************)
C21_LoadMergePersistedWins ==
    [][(/\ pending # <<>>
        /\ pending' = Tail(pending)
        /\ UnitMeta(Head(pending)).name # None
        /\ UnitMeta(Head(pending)).name \notin DOMAIN plugins) =>
           LET meta == UnitMeta(Head(pending))
               persisted == DocGet(configs, meta.name, "config", <<>>)
               cfg == plugins'[meta.name].config
           IN /\ \A k \in DOMAIN persisted :
                     k \in DOMAIN cfg /\ cfg[k] = persisted[k]
              /\ \A k \in DOMAIN meta.defaults \ DOMAIN persisted :
                     k \in DOMAIN cfg /\ cfg[k] = meta.defaults[k]
              /\ DOMAIN cfg \subseteq
                     DOMAIN meta.defaults \cup DOMAIN persisted]_vars

\* defaults {a: 1, b: 2} with persisted {a: 9} gave {a: 9, b: 2}
C21_Witness ==
    /\ last.op = "load"
    /\ last.name = "pa"
    /\ last.unit = "analyzer"
    /\ ClassMeta("Analyzer").defaults = [a |-> 1, b |-> 2]
    /\ DocGet(configs, "pa", "config", None) = [a |-> 9]
    /\ plugins["pa"].config = [a |-> 9, b |-> 2]

\* the record of name in a config document holds cfg as its config
HoldsConfig(doc, name, cfg) ==
    /\ name \in DOMAIN doc
    /\ "config" \in DOMAIN doc[name]
    /\ doc[name].config = cfg

SameAsWritten(ok) ==
    /\ last'.exc = FALSE
    /\ last'.result = ok.result
    /\ plugins' = ok.plugins
    /\ handlers' = ok.handlers
    /\ last'.emits = ok.emits

FailedWrites == WriteOutcomes \ {"ok"}

(***************************************************************************)
(* C23.  As claimed: when the write of the config document fails during    *)
(* activate_plugin(name), deactivate_plugin(name) or                       *)
(* update_plugin_config(name, partial), nothing is raised to the caller    *)
(* and the call returns the result and leaves the active flags, errors,    *)
(* configs, subscriptions and lifecycle notifications that it has with a   *)
(* write that succeeded.                                                   *)
(***************************************************************************)
C23_WriteFailureChangesNothing ==
    [][\A name \in PluginNames, io \in FailedWrites :
          /\ \A outcome \in ActivateOutcomes :
                 last'.op = "activate" /\ Activate(name, outcome, io) =>
                    SameAsWritten(ActivatePlugin(Cur, name, outcome, "ok"))
          /\ \A outcome \in DeactivateOutcomes :
                 last'.op = "deactivate" /\ Deactivate(name, outcome, io) =>
                    SameAsWritten(DeactivatePlugin(Cur, name, outcome, "ok"))
          /\ \A outcome \in ConfigChangedOutcomes,
                new_config \in Partials \cup {BadPartial} :
                 UpdateConfigCall(name, new_config, outcome, io) =>
                    SameAsWritten(UpdatePluginConfig(Cur, name, new_config,
                                                     outcome, "ok"))]_vars

(***************************************************************************)
(* C24.  An exception of _load_plugin for one unit (no plugin class in the *)
(* module; the constructor, get_meta() or get_default_config() raising)    *)
(* does not end the discovery: the units after it, of the same and of      *)
(* later directories, are all still to be loaded, none is skipped, and the *)
(* registry entries, with their active flags, and the subscriptions are    *)
(* what they were before the unit.                                         *)
(***************************************************************************)
C24_FailedUnitIsIsolated ==
    [][pending' # pending =>
          /\ pending # <<>>
          /\ pending' = Tail(pending)
          /\ last'.op = "load"
          /\ last'.unit = Head(pending).dir
          /\ UnitMeta(Head(pending)).raises =>
                 /\ last'.exc
                 /\ plugins' = plugins
                 /\ handlers' = handlers]_vars

\* the unit without a plugin class has just failed to load, after the unit
\* whose class cannot be instantiated: pa, registered and activated before
\* them, is registered and active, and the unit after them is next
C24_Witness ==
    /\ last.op = "load"
    /\ last.unit = "empty"
    /\ last.exc
    /\ pending = <<UnitTwin>>
    /\ "pa" \in DOMAIN plugins
    /\ plugins["pa"].active
    /\ plugins["pa"].instance = "analyzer"

\* the statements of the deactivate_plugin that the call obs was, in order
StepNames(obs) == [i \in 1..Len(obs.steps) |-> obs.steps[i].step]

LifecycleSteps(obs) ==
    {i \in 1..Len(obs.steps) : obs.steps[i].step \in {"activate()", "deactivate"}}

(***************************************************************************)
(* C26.  Every activate() and deactivate() of a plugin instance starts     *)
(* with the bus assigned to the instance and with the instance's config    *)
(* in place, in a load the merge of defaults and persisted config; a       *)
(* registered instance has had the bus assigned exactly once; and only     *)
(* methods of registered instances are called: a load that registers       *)
(* nothing (a name already taken, a unit that fails) calls no method.      *)
(***************************************************************************)
C26_InjectedBeforeLifecycle ==
    [][/\ \A i \in LifecycleSteps(last') :
             /\ last'.steps[i].bus_sets = 1
             /\ last'.name \in DOMAIN plugins'
             /\ IF last'.op = "load"
                THEN IsMerge(last'.steps[i].config,
                             UnitMeta(Head(pending)).defaults,
                             DocGet(configs, last'.name, "config", <<>>))
                ELSE last'.steps[i].config = plugins[last'.name].config
       /\ \A n \in DOMAIN plugins' : plugins'[n].bus_sets = 1
       /\ \A i \in 1..Len(last'.pcalls) :
             /\ last'.pcalls[i][1] \in DOMAIN plugins'
             /\ last'.pcalls[i][2] \in {"activate", "deactivate"} =>
                    \E j \in LifecycleSteps(last') :
                        last'.steps[j].ran = i - 1
       /\ (/\ pending' # pending
           /\ \/ UnitMeta(Head(pending)).raises
              \/ UnitMeta(Head(pending)).name \in DOMAIN plugins) =>
              last'.pcalls = <<>> /\ last'.steps = <<>>]_vars

\* the activate() of pb, enabled in the document with the config {c: 4},
\* started in the load of its unit with the bus assigned once and that
\* config in place
C26_Witness ==
    /\ last.op = "load"
    /\ last.name = "pb"
    /\ Ran(last, "pb", "activate")
    /\ last.steps[1].step = "activate()"
    /\ last.steps[1].bus_sets = 1
    /\ last.steps[1].config = [c |-> 4]
    /\ plugins["pb"].bus_sets = 1

\* the listener the default activate() of a specialization installs
DefaultListener(kind) ==
    CASE kind = "analyzer" -> [event |-> "monitor.cycle_complete", priority |-> 50]
      [] kind = "nudge"    -> [event |-> "nudge.triggered", priority |-> 100]
      [] kind = "reporter" -> [event |-> "review.generated", priority |-> 100]

\* the subscription numbers of the entries of a table, and of those tagged
\* with a source
SeqsOf(h) == UNION {{h[ev][i].seq : i \in 1..Len(h[ev])} : ev \in DOMAIN h}
TaggedSeqs(h, source) ==
    UNION {{h[ev][i].seq : i \in {j \in 1..Len(h[ev]) : h[ev][j].source = source}}
              : ev \in DOMAIN h}

\* the plugins of a specialization whose activate() a call ran
Activated(obs) == {name \in KindNames : Ran(obs, name, "activate")}

(***************************************************************************)
(* C27.  The activate() of an Analyzer, Nudge or Reporter plugin adds      *)
(* exactly one listener and nothing else: tagged with the plugin's name,   *)
(* not once, on monitor.cycle_complete at priority 50, on nudge.triggered  *)
(* at priority 100, on review.generated at priority 100; it is then the    *)
(* one listener tagged with the name.  In every publish of                 *)
(* monitor.cycle_complete the callback of an analyzer is called before     *)
(* every listener of priority 100, whichever was subscribed first.         *)
(***************************************************************************)
C27_DefaultActivateListeners ==
    [][/\ \A name \in Activated(last') :
             LET exp == DefaultListener(KindOf(name))
                 added == SeqsOf(handlers') \ SeqsOf(handlers)
             IN /\ Cardinality(added) = 1
                /\ SeqsOf(handlers) \subseteq SeqsOf(handlers')
                /\ \A ev \in DOMAIN handlers' :
                      \A i \in 1..Len(handlers'[ev]) :
                         handlers'[ev][i].seq \in added =>
                            /\ ev = exp.event
                            /\ handlers'[ev][i].source = name
                            /\ handlers'[ev][i].priority = exp.priority
                            /\ handlers'[ev][i].once = FALSE
                /\ TaggedSeqs(handlers', name) = added
       /\ \A e \in 1..Len(last'.emits) :
             last'.emits[e].event = "monitor.cycle_complete" =>
                \A p, q \in 1..Len(last'.emits[e].calls) :
                   (/\ last'.emits[e].calls[p].source = "pa"
                    /\ last'.emits[e].calls[q].priority = 100) => p < q]_vars

\* a cycle was published to a listener of priority 100 subscribed first and
\* to the analyzer pa activated after it: pa was called first; the nudge
\* plugin pn, activated by its own activate(), has its one listener on
\* nudge.triggered at priority 100
C27_Witness ==
    /\ last.op = "emit"
    /\ last.event = CycleComplete
    /\ Len(CallsOf(last)) = 2
    /\ CallsOf(last)[1].source = "pa"
    /\ CallsOf(last)[1].priority = 50
    /\ CallsOf(last)[2].priority = 100
    /\ CallsOf(last)[2].seq < CallsOf(last)[1].seq
    /\ Len(handlers[NudgeTriggered]) = 1
    /\ handlers[NudgeTriggered][1].source = "pn"
    /\ handlers[NudgeTriggered][1].priority = 100
    /\ TaggedSeqs(handlers, "pn") = {handlers[NudgeTriggered][1].seq}

(***************************************************************************)
(* C28.  As claimed: every publish appends exactly one record, also when   *)
(* threads publish at the same time, and a record leaves the history only  *)
(* as the oldest one once more than 100 were appended: whenever no publish *)
(* is in progress, the history is the records of the last min(N, 100) of   *)
(* the N appends made, in order.                                           *)
(***************************************************************************)
C28_NoRecordLost ==
    Idle =>
       /\ Len(event_history) = IF npub < 100 THEN npub ELSE 100
       /\ \A i \in 1..Len(event_history) :
              event_history[i].data_keys = {npub - Len(event_history) + i}

\* C29: a once listener that a publish called, whether its handler returned
\* or raised, is out of the registry when the cleanup of that publish has
\* run; and a cleanup whose once listeners have all been removed already by
\* the cleanup of another publish that called them too removes no entry.
C29_OnceRemovalIdempotent ==
    [][\A t \in Threads :
          Clean(t) =>
             /\ OnceCalled(Top(t)) \cap SeqsOf(handlers') = {}
             /\ (/\ OnceCalled(Top(t)) # {}
                 /\ OnceCalled(Top(t)) \subseteq Top(t).consumed)
                => handlers' = handlers]_vars

\* the registration numbers of the listeners subscribed with once=False
PermanentSeqs(h) ==
    UNION {{h[ev][i].seq : i \in {j \in 1..Len(h[ev]) : ~h[ev][j].once}}
              : ev \in DOMAIN h}
\* the registration numbers of the once listeners the calls were made to
OnceSeqsCalled(calls) ==
    {calls[i].seq : i \in {j \in 1..Len(calls) : calls[j].once}}

\* C30: the cleanup at the end of a publish removes only once listeners that
\* the publish called: every listener subscribed with once=False that was
\* registered before the publish is registered after it, also one that has
\* the event, the handler and the source tag of a once listener.
C30_CleanupSparesPermanent ==
    [][last'.op = "emit" =>
         /\ SeqsOf(handlers) \ SeqsOf(handlers')
               \subseteq OnceSeqsCalled(CallsOf(last'))
         /\ PermanentSeqs(handlers) \subseteq SeqsOf(handlers')]_vars

\* the frames of the bus calls in progress, as <<thread, position>>
Frames == UNION {{<<t, i>> : i \in 1..Len(threads[t])} : t \in Threads}
FrameAt(p) == threads[p[1]][p[2]]
\* the handler of a once listener is running in frame p
RunsOnce(p) == FrameAt(p).pc = "handler" /\ FrameAt(p).cur.once

\* C31: the handler of a once listener runs at most once in total: while it
\* runs in one publish, no other publish in progress, of another thread or
\* of the same thread around a nested publish, has called that listener,
\* and no publish that has returned had called it.
C31_OnceAtMostOnceOverlapping ==
    \A p \in Frames :
        RunsOnce(p) =>
            /\ FrameAt(p).cur.seq \notin FrameAt(p).fired
            /\ \A q \in Frames \ {p} :
                   FrameAt(p).cur.seq \notin OnceCalled(FrameAt(q))

\* C32: a registered plugin with a recorded last error is not active, and
\* after an activate(name) of a registered plugin that returned failure the
\* plugin is not active, whichever step of activate_plugin raised.
C32_ErrorMeansInactive ==
    /\ \A name \in DOMAIN plugins :
           plugins[name].error # None => ~plugins[name].active
    /\ (/\ last.op = "activate"
        /\ last.name \in DOMAIN plugins
        /\ last.result = FALSE)
       => ~plugins[last.name].active

\* the positions, among the notices a call published, of those of the given
\* lifecycle events about plugin n
NoticesAbout(emits, events, n) ==
    {i \in 1..Len(emits) : emits[i].event \in events /\ emits[i].data.name = n}

\* C33: plugin.loaded is published once for a plugin, by the call that
\* registers it and by no other call, and every plugin.activated or
\* plugin.error about a plugin comes after its plugin.loaded: the plugin
\* was registered by an earlier call, or the call published plugin.loaded
\* about it before; also when the plugin is activated while it is loaded.
C33_LoadedFirstAndOnce ==
    [][\A n \in DOMAIN plugins' :
          LET loaded == NoticesAbout(last'.emits, {"plugin.loaded"}, n)
              acts == NoticesAbout(last'.emits,
                                   {"plugin.activated", "plugin.error"}, n)
          IN /\ Cardinality(loaded) =
                    IF n \notin DOMAIN plugins THEN 1 ELSE 0
             /\ \A i \in acts :
                    n \in DOMAIN plugins \/ \E j \in loaded : j < i]_vars

\* the calls activate_plugin(n) in progress that have run the plugin's
\* activate() and not returned yet
Activating(n) ==
    {t \in Busy : /\ threads[t][1].kind = "activate"
                  /\ threads[t][1].name = n
                  /\ threads[t][1].pc \in {"mark", "persist", "publish"}}

\* C34: overlapping activate(name) calls for an inactive plugin run the
\* plugin's activate() at most once and install its subscriptions at most
\* once; and when no call is in progress, after activate(name) and
\* deactivate(name) calls interleaved in any way, an inactive plugin has no
\* listener tagged with its name on the bus.
C34_ConcurrentLifecycleConsistent ==
    \A n \in DOMAIN plugins :
        /\ Cardinality(Activating(n)) <= 1
        /\ Cardinality(TaggedSeqs(handlers, n))
              <= Len(ActivatePlan(plugins[n].kind, n))
        /\ (Busy = {} /\ ~plugins[n].active) => TaggedSeqs(handlers, n) = {}
====
